---- MODULE Spec2Model ----
(***************************************************************************)
(* Model of the mod update checker: the version comparison utilities of    *)
(* data/utils/version.py, the cache of data/cache/manager.py and the       *)
(* update orchestration of data/checker.py.                                *)
(*                                                                         *)
(* A Python str is a sequence of one-character strings.  Python's None is  *)
(* the value None below and a JSON number (a non-str value that metadata   *)
(* can carry) is the value Number; neither is a sequence of characters.    *)
(***************************************************************************)
EXTENDS Integers, Sequences, FiniteSets, TLC

\* ------------------------------------------------------------------------
\* Characters and strings
\* ------------------------------------------------------------------------
None == <<"None">>
Number == <<"Number">>
IsStr(x) == x # None /\ x # Number

DigitSeq == <<"0", "1", "2", "3", "4", "5", "6", "7", "8", "9">>
LowerSeq == <<"a", "b", "c", "d", "e", "f", "g", "h", "i", "j", "k", "l", "m",
              "n", "o", "p", "q", "r", "s", "t", "u", "v", "w", "x", "y", "z">>
UpperSeq == <<"A", "B", "C", "D", "E", "F", "G", "H", "I", "J", "K", "L", "M",
              "N", "O", "P", "Q", "R", "S", "T", "U", "V", "W", "X", "Y", "Z">>
\* the characters of the model in code point order
AsciiOrder == <<"\t", "\n", " ", "+", "-", ".">> \o DigitSeq \o UpperSeq \o <<"_">> \o LowerSeq

Range(f) == {f[i] : i \in DOMAIN f}
Digit == Range(DigitSeq)
Letter == Range(LowerSeq) \cup Range(UpperSeq)
Whitespace == {" ", "\t", "\n"}
\* the class [a-zA-Z0-9.-]
TagChar == Letter \cup Digit \cup {".", "-"}
\* the class [0-9.]
DigitDot == Digit \cup {"."}
\* the class [._-]
Separator == {".", "_", "-"}

Min(S) == CHOOSE m \in S : \A n \in S : m <= n

\* s[i] with 1-based i, "" past either end
At(s, i) == IF i \in 1..Len(s) THEN s[i] ELSE ""

\* s[a..b] with 1-based inclusive bounds, clipped to the string as Python
\* slicing clips
slice(s, a, b) ==
    LET lo == IF a < 1 THEN 1 ELSE a
        hi == IF b > Len(s) THEN Len(s) ELSE b
    IN IF lo > hi THEN <<>> ELSE SubSeq(s, lo, hi)

\* the first index j >= i such that s[j] is not in class C (Len(s)+1 at the end)
RECURSIVE RunEnd(_, _, _)
RunEnd(s, i, C) == IF i \in 1..Len(s) /\ s[i] \in C THEN RunEnd(s, i + 1, C) ELSE i

ord(c) == CHOOSE i \in 1..Len(AsciiOrder) : AsciiOrder[i] = c

\* c.lower()
lower(c) == IF c \in Range(UpperSeq)
            THEN LowerSeq[CHOOSE i \in 1..26 : UpperSeq[i] = c]
            ELSE c

str_lower(s) == [i \in 1..Len(s) |-> lower(s[i])]

\* Python str < str: lexicographic by code point, a proper prefix sorts first
RECURSIVE str_lt(_, _)
str_lt(a, b) ==
    IF b = <<>> THEN FALSE
    ELSE IF a = <<>> THEN TRUE
    ELSE IF Head(a) # Head(b) THEN ord(Head(a)) < ord(Head(b))
    ELSE str_lt(Tail(a), Tail(b))

\* Python list < list on lists of int
RECURSIVE list_lt(_, _)
list_lt(a, b) ==
    IF b = <<>> THEN FALSE
    ELSE IF a = <<>> THEN TRUE
    ELSE IF Head(a) # Head(b) THEN Head(a) < Head(b)
    ELSE list_lt(Tail(a), Tail(b))

\* int(part) for a string of decimal digits
RECURSIVE int(_)
int(part) ==
    IF part = <<>> THEN 0
    ELSE int(slice(part, 1, Len(part) - 1)) * 10
         + ((CHOOSE i \in 1..10 : DigitSeq[i] = part[Len(part)]) - 1)

\* s.find(c): 0-based index of the first c, -1 when there is none
str_find(s, c) ==
    LET I == {i \in 1..Len(s) : s[i] = c}
    IN IF I = {} THEN -1 ELSE Min(I) - 1

\* s.strip()
RECURSIVE rstrip(_)
rstrip(s) == IF s # <<>> /\ s[Len(s)] \in Whitespace
             THEN rstrip(slice(s, 1, Len(s) - 1)) ELSE s

RECURSIVE lstrip(_)
lstrip(s) == IF s # <<>> /\ Head(s) \in Whitespace THEN lstrip(Tail(s)) ELSE s

strip(s) == rstrip(lstrip(s))

\* re.search: the group of the leftmost start at which the pattern matches;
\* groups[i] is the pattern's group when matched at position i, else None
re_search(groups) ==
    LET M == {i \in DOMAIN groups : groups[i] # None}
    IN IF M = {} THEN None ELSE groups[Min(M)]

\* ------------------------------------------------------------------------
\* normalize_version
\* ------------------------------------------------------------------------
\* group(2) of MC\d+\.\d+(\.\d+)?-([0-9.]+) matched at s[i], else None
mc_pattern(s, i) ==
    LET j1 == RunEnd(s, i + 2, Digit)
        j2 == RunEnd(s, j1 + 1, Digit)
        j3 == RunEnd(s, j2 + 1, Digit)
        k  == IF At(s, j2) = "-" THEN j2 ELSE j3
        j4 == RunEnd(s, k + 1, DigitDot)
    IN IF /\ At(s, i) = "M" /\ At(s, i + 1) = "C"
          /\ j1 > i + 2 /\ At(s, j1) = "."
          /\ j2 > j1 + 1
          /\ \/ At(s, j2) = "-"
             \/ At(s, j2) = "." /\ j3 > j2 + 1 /\ At(s, j3) = "-"
          /\ j4 > k + 1
       THEN slice(s, k + 1, j4 - 1)
       ELSE None

\* group(1) of [a-zA-Z]+-(\d+\.\d+(\.\d+)?) matched at s[i], else None
dash_pattern(s, i) ==
    LET j0 == RunEnd(s, i, Letter)
        j1 == RunEnd(s, j0 + 1, Digit)
        j2 == RunEnd(s, j1 + 1, Digit)
        j3 == RunEnd(s, j2 + 1, Digit)
    IN IF /\ j0 > i /\ At(s, j0) = "-"
          /\ j1 > j0 + 1 /\ At(s, j1) = "."
          /\ j2 > j1 + 1
       THEN slice(s, j0 + 1,
                   IF At(s, j2) = "." /\ j3 > j2 + 1 THEN j3 - 1 ELSE j2 - 1)
       ELSE None

\* lines 98-99: version[1:] when version.lower() starts with v
strip_v(version) ==
    IF version # <<>> /\ lower(Head(version)) = "v" THEN Tail(version)
    ELSE version

\* "if match: version = match.group(n)"
group_or(group, version) == IF group # None THEN group ELSE version

\* lines 103-105
mc_sub(version) ==
    group_or(re_search([i \in 1..Len(version) |-> mc_pattern(version, i)]),
             version)

\* lines 108-110
dash_sub(version) ==
    group_or(re_search([i \in 1..Len(version) |-> dash_pattern(version, i)]),
             version)

normalize_version(version) == strip(dash_sub(mc_sub(strip_v(version))))

\* ------------------------------------------------------------------------
\* parse_version
\* ------------------------------------------------------------------------
\* re.split(r'[^0-9]+', s) without its empty parts: the maximal digit runs
RECURSIVE digit_runs(_, _)
digit_runs(s, i) ==
    IF i > Len(s) THEN <<>>
    ELSE IF s[i] \in Digit
         THEN LET j == RunEnd(s, i, Digit)
              IN <<slice(s, i, j - 1)>> \o digit_runs(s, j)
         ELSE digit_runs(s, i + 1)

\* parse_version without the default of lines 155-156
parse_version_noDefault(version) ==
    LET prerelease_index == str_find(version, "-")
        build_index == str_find(version, "+")
        e0 == Len(version)
        e1 == IF prerelease_index # -1 /\ prerelease_index < e0
              THEN prerelease_index ELSE e0
        end_index == IF build_index # -1 /\ build_index < e1
                     THEN build_index ELSE e1
        version_parts == digit_runs(slice(version, 1, end_index), 1)
    IN [i \in 1..Len(version_parts) |-> int(version_parts[i])]

parse_version(version) ==
    LET prerelease_index == str_find(version, "-")
        build_index == str_find(version, "+")
        e0 == Len(version)
        e1 == IF prerelease_index # -1 /\ prerelease_index < e0
              THEN prerelease_index ELSE e0
        end_index == IF build_index # -1 /\ build_index < e1
                     THEN build_index ELSE e1
        numeric_part == slice(version, 1, end_index)
        version_parts == digit_runs(numeric_part, 1)
        components == [i \in 1..Len(version_parts) |-> int(version_parts[i])]
    IN IF components = <<>> THEN <<0>> ELSE components

\* ------------------------------------------------------------------------
\* extract_prerelease_and_build
\* ------------------------------------------------------------------------
\* group(1) of -([a-zA-Z0-9.-]+)(?:\+|$) matched at s[i], else None
prerelease_match(s, i) ==
    LET j == RunEnd(s, i + 1, TagChar)
    IN IF /\ At(s, i) = "-" /\ j > i + 1
          /\ (At(s, j) = "+" \/ j = Len(s) + 1)
       THEN slice(s, i + 1, j - 1)
       ELSE None

\* group(1) of \+([a-zA-Z0-9.-]+)$ matched at s[i], else None
build_match(s, i) ==
    LET j == RunEnd(s, i + 1, TagChar)
    IN IF At(s, i) = "+" /\ j > i + 1 /\ j = Len(s) + 1
       THEN slice(s, i + 1, j - 1)
       ELSE None

Keywords == {<<"a", "l", "p", "h", "a">>, <<"b", "e", "t", "a">>,
             <<"p", "r", "e">>, <<"r", "c">>,
             <<"s", "n", "a", "p", "s", "h", "o", "t">>}

\* f"{type_str}.{num_str}" of [._-](alpha|beta|pre|rc|snapshot)[._-]?(\d*)
\* matched case-insensitively at s[i], else None
alt_match(s, i) ==
    LET K == {k \in Keywords : str_lower(slice(s, i + 1, i + Len(k))) = k}
        type_str == CHOOSE k \in K : TRUE
        e  == i + 1 + Len(type_str)
        e2 == IF At(s, e) \in Separator THEN e + 1 ELSE e
        j  == RunEnd(s, e2, Digit)
        num_str == IF j > e2 THEN slice(s, e2, j - 1) ELSE <<"0">>
    IN IF At(s, i) \in Separator /\ K # {}
       THEN type_str \o <<".">> \o num_str
       ELSE None

\* <<prerelease, build>>
extract_prerelease_and_build(version) ==
    LET semver == re_search([i \in 1..Len(version) |-> prerelease_match(version, i)])
        build == re_search([i \in 1..Len(version) |-> build_match(version, i)])
        prerelease == IF semver = None THEN re_search([i \in 1..Len(version) |-> alt_match(version, i)])
                      ELSE semver
    IN <<prerelease, build>>

\* ------------------------------------------------------------------------
\* class Version
\* ------------------------------------------------------------------------
\* Version.__init__ from line 25 on, given self.normalized
Version_of(version_string, normalized) ==
    [original |-> version_string,
     normalized |-> normalized,
     components |-> parse_version(normalized),
     prerelease |-> extract_prerelease_and_build(normalized)[1],
     build |-> extract_prerelease_and_build(normalized)[2]]

Version(version_string) ==
    Version_of(version_string, normalize_version(version_string))

\* the value of an attribute that was never assigned
NoVersion == [original |-> None, normalized |-> None, components |-> <<>>,
              prerelease |-> None, build |-> None]

Version_eq(self, other) ==
    /\ self.components = other.components
    /\ self.prerelease = other.prerelease
    /\ self.build = other.build

\* Version.__lt__ comparing the components position by position with missing
\* positions read as 0
Version_lt_padded(self, other) ==
    LET n == IF Len(self.components) > Len(other.components)
             THEN Len(self.components) ELSE Len(other.components)
        pad(c) == [i \in 1..n |-> IF i <= Len(c) THEN c[i] ELSE 0]
    IN IF pad(self.components) # pad(other.components)
       THEN list_lt(pad(self.components), pad(other.components))
       ELSE IF self.prerelease # None /\ other.prerelease = None THEN TRUE
       ELSE IF self.prerelease = None /\ other.prerelease # None THEN FALSE
       ELSE IF self.prerelease # None /\ other.prerelease # None
            THEN str_lt(self.prerelease, other.prerelease)
       ELSE FALSE

\* Version.__lt__ with the two prerelease/release answers exchanged
Version_lt_releaseFirst(self, other) ==
    IF self.components # other.components
    THEN list_lt(self.components, other.components)
    ELSE IF self.prerelease # None /\ other.prerelease = None THEN FALSE
    ELSE IF self.prerelease = None /\ other.prerelease # None THEN TRUE
    ELSE IF self.prerelease # None /\ other.prerelease # None
         THEN str_lt(self.prerelease, other.prerelease)
    ELSE FALSE

\* Version.__lt__ comparing the prerelease tags with <=
Version_lt_orEqual(self, other) ==
    IF self.components # other.components
    THEN list_lt(self.components, other.components)
    ELSE IF self.prerelease # None /\ other.prerelease = None THEN TRUE
    ELSE IF self.prerelease = None /\ other.prerelease # None THEN FALSE
    ELSE IF self.prerelease # None /\ other.prerelease # None
         THEN ~str_lt(other.prerelease, self.prerelease)
    ELSE FALSE

\* Version.__lt__ whose first prerelease test forgets "and not other.prerelease"
Version_lt_anyPrerelease(self, other) ==
    IF self.components # other.components
    THEN list_lt(self.components, other.components)
    ELSE IF self.prerelease # None THEN TRUE
    ELSE FALSE

\* Version.__lt__ comparing the prerelease tags with !=
Version_lt_differs(self, other) ==
    IF self.components # other.components
    THEN list_lt(self.components, other.components)
    ELSE IF self.prerelease # None /\ other.prerelease = None THEN TRUE
    ELSE IF self.prerelease = None /\ other.prerelease # None THEN FALSE
    ELSE IF self.prerelease # None /\ other.prerelease # None
         THEN self.prerelease # other.prerelease
    ELSE FALSE

Version_lt(self, other) ==
    IF self.components # other.components
    THEN list_lt(self.components, other.components)
    ELSE IF self.prerelease # None /\ other.prerelease = None THEN TRUE
    ELSE IF self.prerelease = None /\ other.prerelease # None THEN FALSE
    ELSE IF self.prerelease # None /\ other.prerelease # None
         THEN str_lt(self.prerelease, other.prerelease)
    ELSE FALSE

\* Version.__gt__ returning self < other
Version_gt_swapped(self, other) == Version_lt(self, other)

Version_gt(self, other) == Version_lt(other, self)

\* ------------------------------------------------------------------------
\* compare_versions and its fallback
\* ------------------------------------------------------------------------
Returned(b) == [raised |-> FALSE, value |-> b]
Raised == [raised |-> TRUE, value |-> FALSE]

\* position-by-position comparison with missing positions read as 0
RECURSIVE padded_gt(_, _, _)
padded_gt(latest_parts, current_parts, i) ==
    LET n == IF Len(current_parts) > Len(latest_parts)
             THEN Len(current_parts) ELSE Len(latest_parts)
        current_part == IF i <= Len(current_parts) THEN current_parts[i] ELSE 0
        latest_part == IF i <= Len(latest_parts) THEN latest_parts[i] ELSE 0
    IN IF i > n THEN FALSE
       ELSE IF latest_part > current_part THEN TRUE
       ELSE IF latest_part < current_part THEN FALSE
       ELSE padded_gt(latest_parts, current_parts, i + 1)

\* _simple_version_compare as its docstring has it: "True if versions are
\* different, False if they are the same"
simple_version_compare_differs(current_version, latest_version) ==
    IF ~IsStr(current_version) \/ ~IsStr(latest_version) THEN Raised
    ELSE Returned(normalize_version(current_version)
                      # normalize_version(latest_version))

\* normalize_version is called outside the try block: a non-str argument
\* raises AttributeError out of the function
simple_version_compare(current_version, latest_version) ==
    IF ~IsStr(current_version) \/ ~IsStr(latest_version) THEN Raised
    ELSE LET current == normalize_version(current_version)
             latest == normalize_version(latest_version)
         IN IF current = latest THEN Returned(FALSE)
            ELSE Returned(padded_gt(parse_version(latest),
                                    parse_version(current), 1))

\* Version(...) raises AttributeError on a non-str argument (version.lower())
compare_versions(current_version, latest_version) ==
    IF IsStr(current_version) /\ IsStr(latest_version)
    THEN Returned(Version_gt(Version(latest_version), Version(current_version)))
    ELSE simple_version_compare(current_version, latest_version)

is_valid_version(version) ==
    IF version = <<>> THEN FALSE
    ELSE LET normalized == normalize_version(version)
         IN /\ Len(parse_version(normalized)) > 0
            /\ \E i \in 1..Len(normalized) : normalized[i] \in Digit

\* ------------------------------------------------------------------------
\* ModCache (data/cache/manager.py)
\* ------------------------------------------------------------------------
\* a dict is a function on its keys; {} is the function with no key
EmptyDict == <<>>
Put(d, k, v) == [x \in (DOMAIN d) \cup {k} |-> IF x = k THEN v ELSE d[x]]
Without(d, K) == [x \in (DOMAIN d) \ K |-> d[x]]
\* d.get(k)
dict_get(d, k) == IF k \in DOMAIN d THEN d[k] ELSE None
\* the truth value of a str or None
Truthy(x) == x # None /\ x # <<>>

Providers == {"modrinth", "curseforge"}

EmptyCache == [mod_files |-> EmptyDict, project_ids |-> EmptyDict,
               latest_versions |-> EmptyDict, downloaded_files |-> EmptyDict]

cache_get_project_ids(cache, mod_id) ==
    IF mod_id \in DOMAIN cache.project_ids
    THEN cache.project_ids[mod_id]
    ELSE [p \in Providers |-> None]

\* set_project_ids that stores the values it is given, None included
cache_set_project_ids_storeNone(cache, mod_id, modrinth_id, curseforge_id) ==
    [cache EXCEPT !.project_ids =
        Put(@, mod_id, [p \in Providers |->
               IF p = "modrinth" THEN modrinth_id ELSE curseforge_id])]

\* set_project_ids that replaces the stored dict by the values it is given
cache_set_project_ids_overwrite(cache, mod_id, modrinth_id, curseforge_id) ==
    LET d1 == IF modrinth_id # None
              THEN Put(EmptyDict, "modrinth", modrinth_id) ELSE EmptyDict
        d2 == IF curseforge_id # None
              THEN Put(d1, "curseforge", curseforge_id) ELSE d1
    IN [cache EXCEPT !.project_ids = Put(@, mod_id, d2)]

cache_set_project_ids(cache, mod_id, modrinth_id, curseforge_id) ==
    LET d0 == IF mod_id \in DOMAIN cache.project_ids
              THEN cache.project_ids[mod_id] ELSE EmptyDict
        d1 == IF modrinth_id # None
              THEN Put(d0, "modrinth", modrinth_id) ELSE d0
        d2 == IF curseforge_id # None
              THEN Put(d1, "curseforge", curseforge_id) ELSE d1
    IN [cache EXCEPT !.project_ids = Put(@, mod_id, d2)]

\* a key without the mod loader
cache_key_noLoader(provider, project_id, game_version, mod_loader) ==
    <<provider, ":">> \o project_id \o <<":">> \o game_version

\* f"{provider}:{project_id}:{game_version}:{mod_loader}"
cache_key(provider, project_id, game_version, mod_loader) ==
    <<provider, ":">> \o project_id \o <<":">> \o game_version
        \o <<":", mod_loader>>

\* a version record, and the value standing for "no record"
NoRecord == [provider |-> "", project_id |-> None, version_number |-> None]

cache_get_version_info(cache, provider, project_id, game_version, mod_loader) ==
    LET key == cache_key(provider, project_id, game_version, mod_loader)
    IN IF key \in DOMAIN cache.latest_versions
       THEN cache.latest_versions[key] ELSE NoRecord

cache_set_version_info(cache, provider, project_id, game_version, mod_loader, version_info) ==
    [cache EXCEPT !.latest_versions =
        Put(@, cache_key(provider, project_id, game_version, mod_loader),
            version_info)]

cache_get_mod_file_info(cache, file_path) ==
    IF file_path \in DOMAIN cache.mod_files
    THEN cache.mod_files[file_path] ELSE [mod_id |-> None, version |-> None]

cache_set_mod_file_info(cache, file_path, info) ==
    [cache EXCEPT !.mod_files = Put(@, file_path, info)]

cache_clean_up(cache, processed_files) ==
    IF processed_files # {}
    THEN [cache EXCEPT !.mod_files = Without(@, (DOMAIN @) \ processed_files)]
    ELSE cache

\* a date_published text: an ISO date-time of a day, without a zone
\* ("2024-01-05T00:00:00"), with Z or with +00:00, or a text that is no date
IsoDate(day, zone) == [day |-> day, zone |-> zone]
NotADate == [day |-> -1, zone |-> "?"]
\* date_published None (or no such key), and the empty text
NoDate == [day |-> -1, zone |-> "None"]
EmptyDate == [day |-> -1, zone |-> "empty"]

\* lines 320-321: a trailing Z becomes +00:00
replace_z(date_str) ==
    IF date_str.zone = "Z" THEN [date_str EXCEPT !.zone = "+00:00"] ELSE date_str

\* datetime.fromisoformat: ValueError ("raised") on a text that is no date,
\* else the date-time, aware when the text has an offset
fromisoformat(date_str) ==
    IF date_str.zone \notin {"", "+00:00"}
    THEN [raised |-> TRUE, day |-> 0, aware |-> FALSE]
    ELSE [raised |-> FALSE, day |-> date_str.day,
          aware |-> date_str.zone = "+00:00"]

\* now - pub_date for the naive now: TypeError ("raised") when pub_date is
\* aware, else the age in seconds
age_of(now, pub_date) ==
    IF pub_date.raised \/ pub_date.aware
    THEN [raised |-> TRUE, total_seconds |-> 0]
    ELSE [raised |-> FALSE, total_seconds |-> (now - pub_date.day) * 24 * 3600]

\* lines 327-331: the record is deleted when the age is above the maximum;
\* ValueError and TypeError are caught and the record is kept
age_pruned(age, max_age_seconds) ==
    IF age.raised THEN FALSE ELSE age.total_seconds > max_age_seconds

\* the test of lines 315-331 on one record: whether the record is deleted
is_pruned(version_info, now, max_age_days) ==
    IF version_info.date_published \in {NoDate, EmptyDate}
    THEN FALSE
    ELSE age_pruned(age_of(now, fromisoformat(replace_z(
                        version_info.date_published))),
                    max_age_days * 24 * 3600)

\* lines 328-329: del self.latest_versions[key]; pruned_count += 1
prune_result(latest_versions, pruned) ==
    [latest_versions |-> Without(latest_versions, pruned),
     pruned_count |-> Cardinality(pruned)]

\* prune_old_versions: the version records left and the count returned
prune_old_versions(latest_versions, now, max_age_days) ==
    prune_result(latest_versions,
        {k \in DOMAIN latest_versions :
            is_pruned(latest_versions[k], now, max_age_days)})

\* ModCache.load (lines 57-95).  The cache file is [kind, keys, data]:
\*   "missing"       os.path.exists is false
\*   "unreadable"    open or read raises IOError
\*   "invalid_json"  json.load raises JSONDecodeError
\*   "not_text"      the bytes are not text in the encoding that open uses:
\*                   json.load raises UnicodeDecodeError
\*   "not_object"    valid JSON that is a list, a number, a string or null:
\*                   data.get raises AttributeError
\*   "object"        a JSON object with the keys in keys, their values in data
CacheKeys == {"mod_files", "project_ids", "latest_versions", "downloaded_files"}

\* data.get(key, {}), and "or {}" in __init__
loaded_field(file, key) ==
    IF key \in file.keys THEN file.data[key] ELSE EmptyDict

\* the except clause of load: the file is renamed to cache_file.bak, and an
\* OSError of the rename is swallowed
load_recover(file, rename_ok) ==
    [raised |-> FALSE, exception |-> "", cache |-> EmptyCache,
     backup |-> rename_ok, in_place |-> ~rename_ok]

\* ModCache.load: what it returns or raises, whether cache_file.bak holds the
\* file afterwards, and whether the file is still at cache_file
cache_load(file, rename_ok) ==
    CASE file.kind = "missing" ->
            [raised |-> FALSE, exception |-> "", cache |-> EmptyCache,
             backup |-> FALSE, in_place |-> FALSE]
      [] file.kind \in {"unreadable", "invalid_json"} ->
            load_recover(file, rename_ok)
      [] file.kind = "not_text" ->
            [raised |-> TRUE, exception |-> "UnicodeDecodeError",
             cache |-> EmptyCache, backup |-> FALSE, in_place |-> TRUE]
      [] file.kind = "not_object" ->
            [raised |-> TRUE, exception |-> "AttributeError",
             cache |-> EmptyCache, backup |-> FALSE, in_place |-> TRUE]
      [] file.kind = "object" ->
            [raised |-> FALSE, exception |-> "",
             cache |-> [k \in CacheKeys |-> loaded_field(file, k)],
             backup |-> FALSE, in_place |-> TRUE]

\* ------------------------------------------------------------------------
\* Providers (data/api/modrinth.py, data/api/curseforge.py)
\* ------------------------------------------------------------------------
\* self.max_retries of both providers
max_retries == 3

\* self.retry_delay of both providers, in seconds
retry_delay == 1

\* one second before every retry
wait_time_constant(attempt) == retry_delay

\* _make_request: the seconds slept after the failed attempt number attempt
\* (counted from 0) when another attempt follows
wait_time(attempt) == retry_delay * (2 ^ attempt)

\* A response body is [kind, items]:
\*   "not_json"    response.json() raises ValueError
\*   "not_object"  JSON that is not an object: .get raises AttributeError
\*                 (for Modrinth's version list: not a list of objects)
\*   "object"      the JSON the operation reads, its list of hits, results,
\*                 versions or files in items
\* An item with is_dict false is a JSON value that is not an object.

\* str(x) of None or of a JSON number given by its decimal digits
py_str(x) == IF x = None THEN <<"N", "o", "n", "e">> ELSE x

\* the loop "for hit in hits" of get_project_id from hit k on: the index of
\* the exact match, 0 when the loop ends without one, -1 when it raises
\* (.get of a value that is not an object, .lower() of a missing name)
RECURSIVE exact_match(_, _, _)
exact_match(hits, mod_id, k) ==
    IF k > Len(hits) THEN 0
    ELSE IF ~hits[k].is_dict THEN -1
    ELSE IF hits[k].slug = mod_id THEN k
    ELSE IF hits[k].name = None THEN -1
    ELSE IF str_lower(hits[k].name) = str_lower(mod_id) THEN k
    ELSE exact_match(hits, mod_id, k + 1)

\* "return hit.get('project_id')" of Modrinth, "return str(result.get('id'))"
\* of CurseForge
returned_id(provider, raw) ==
    IF provider = "curseforge" THEN py_str(raw) ELSE raw

\* get_project_id after the response arrived; m is what the loop found
project_id_found(provider, body, m) ==
    IF m = -1 THEN None
    ELSE IF m > 0 THEN returned_id(provider, body.items[m].id)
    ELSE IF body.items # <<>> THEN returned_id(provider, body.items[1].id)
    ELSE None

get_project_id(provider, mod_id, body) ==
    IF body.kind # "object" THEN None
    ELSE project_id_found(provider, body, exact_match(body.items, mod_id, 1))

\* "x in v.get(key, [])": "match" and "other" are lists with and without x,
\* "missing" is no key, "null" raises TypeError
in_raises(field) == field = "null"
in_holds(field) == field = "match"

\* Modrinth: the filter of the list comprehension on one version; it raises
\* when the version is not an object or a list it reads is null
modrinth_filter_raises(v) ==
    \/ ~v.is_dict
    \/ in_raises(v.loaders)
    \/ in_holds(v.loaders) /\ in_raises(v.game_versions)

modrinth_filter(v) == in_holds(v.loaders) /\ in_holds(v.game_versions)

\* Modrinth get_latest_version after the response arrived
modrinth_latest_version(project_id, body) ==
    IF body.kind # "object" \/ body.items = <<>> THEN NoRecord
    ELSE IF \E k \in DOMAIN body.items : modrinth_filter_raises(body.items[k])
    THEN NoRecord
    ELSE IF \A k \in DOMAIN body.items : ~modrinth_filter(body.items[k])
    THEN NoRecord
    ELSE [provider |-> "modrinth", project_id |-> project_id,
          version_number |->
              body.items[Min({k \in DOMAIN body.items :
                                 modrinth_filter(body.items[k])})].version_number]

\* CurseForge: is_compatible of one file, and whether computing it raises
curseforge_filter_raises(f) == ~f.is_dict \/ in_raises(f.gameVersions)

curseforge_filter(f) ==
    in_holds(f.gameVersions) /\ f.isAvailable /\ ~f.isServerPack

\* the part of s after its last "-": s.split('-')[-1]
RECURSIVE last_segment(_)
last_segment(s) ==
    IF str_find(s, "-") = -1 THEN s
    ELSE last_segment(slice(s, str_find(s, "-") + 2, Len(s)))

\* filtered_files.sort(key=fileDate or '', reverse=True)[0]: the first file
\* with the greatest key; a date is "missing" (key ''), "null", a day
\* ("day") or a later day ("later").
\* Comparing null with anything raises TypeError, and two files or more
\* are always compared.
sort_raises(files) ==
    Len(files) >= 2 /\ \E k \in DOMAIN files : files[k].fileDate = "null"

\* the order of the sort keys: '' sorts before every date text
date_key(fileDate) ==
    CASE fileDate = "later" -> 2
      [] fileDate = "day" -> 1
      [] OTHER -> 0

latest_file(files) ==
    files[Min({k \in DOMAIN files :
                  \A j \in DOMAIN files :
                      date_key(files[j].fileDate) <= date_key(files[k].fileDate)})]

\* the dictionary that CurseForge get_latest_version builds from latest_file
curseforge_version_info(project_id, file) ==
    IF file.displayName = None THEN NoRecord
    ELSE [provider |-> "curseforge", project_id |-> project_id,
          version_number |-> strip(last_segment(file.displayName))]

curseforge_latest_of(project_id, filtered) ==
    IF filtered = <<>> \/ sort_raises(filtered) THEN NoRecord
    ELSE curseforge_version_info(project_id, latest_file(filtered))

\* CurseForge get_latest_version after the response arrived
curseforge_latest_version(project_id, body) ==
    IF body.kind # "object" \/ body.items = <<>> THEN NoRecord
    ELSE IF \E k \in DOMAIN body.items : curseforge_filter_raises(body.items[k])
    THEN NoRecord
    ELSE curseforge_latest_of(project_id,
             SelectSeq(body.items, curseforge_filter))

get_latest_version(provider, project_id, body) ==
    IF provider = "modrinth" THEN modrinth_latest_version(project_id, body)
    ELSE curseforge_latest_version(project_id, body)

\* _get_direct_download_url after the response arrived: data.get('data')
direct_download_url(body) ==
    IF body.kind # "object" \/ body.items = <<>> THEN None
    ELSE body.items[1].data

\* ------------------------------------------------------------------------
\* ModUpdateChecker (data/checker.py)
\* ------------------------------------------------------------------------
\* self.providers: Modrinth always, CurseForge when the API key is set
providers_of(config) ==
    IF config.curseforge_api_key THEN Providers ELSE {"modrinth"}

\* _get_mod_metadata: <<metadata, cache>>
get_mod_metadata_step(cache, force_update, file_path, on_disk) ==
    IF ~force_update /\ file_path \in DOMAIN cache.mod_files
    THEN <<cache.mod_files[file_path], cache>>
    ELSE <<on_disk, cache_set_mod_file_info(cache, file_path, on_disk)>>

\* _get_project_ids: the ids, the cache and the provider calls made.
\* id_of[p] is what get_project_id of provider p answers when it is called.
get_project_ids_step(cache, config, force_update, mod_id, id_of) ==
    LET cached_ids == cache_get_project_ids(cache, mod_id)
        primary == config.default_mod_provider
        fallback == config.fallback_mod_provider
        asks(p) == p \in providers_of(config) /\ ~Truthy(dict_get(cached_ids, p))
        u1 == IF asks(primary)
              THEN Put(EmptyDict, primary, id_of[primary]) ELSE EmptyDict
        updated_ids == IF asks(fallback)
                       THEN Put(u1, fallback, id_of[fallback]) ELSE u1
        calls == (IF asks(primary) THEN <<<<"get_project_id", primary>>>> ELSE <<>>)
                 \o (IF asks(fallback) THEN <<<<"get_project_id", fallback>>>> ELSE <<>>)
        new(p) == IF p \in DOMAIN updated_ids
                  THEN updated_ids[p] ELSE dict_get(cached_ids, p)
        cache2 == IF updated_ids # EmptyDict
                  THEN cache_set_project_ids(cache, mod_id, new("modrinth"),
                                             new("curseforge"))
                  ELSE cache
        found == {p \in DOMAIN updated_ids : updated_ids[p] # None}
        result == [p \in (DOMAIN cached_ids) \cup found |->
                      IF p \in found THEN updated_ids[p] ELSE cached_ids[p]]
    IN IF ~force_update /\ \A p \in DOMAIN cached_ids : Truthy(cached_ids[p])
       THEN [ids |-> cached_ids, cache |-> cache, calls |-> <<>>]
       ELSE [ids |-> result, cache |-> cache2, calls |-> calls]

\* the cached records are read with --force too
reads_cache_always(force_update) == TRUE

\* _get_latest_version, line 354: if not self.force_update
reads_cache(force_update) == ~force_update

\* only the primary's cached record is used
cached_choice_primaryOnly(primary, fallback, cached_versions) ==
    IF primary \in cached_versions THEN primary ELSE ""

\* _get_latest_version, lines 361-370: the provider whose cached record is
\* returned, "" when no cached record is used
cached_choice(primary, fallback, cached_versions) ==
    IF primary \in cached_versions THEN primary
    ELSE IF fallback \in cached_versions THEN fallback
    ELSE ""

\* the fallback's live record is preferred
live_choice_fallbackFirst(primary, fallback, versions) ==
    IF fallback \in versions THEN fallback
    ELSE IF primary \in versions THEN primary
    ELSE ""

\* _get_latest_version, lines 395-401: the provider whose live record is
\* returned, "" when None is returned
live_choice(primary, fallback, versions) ==
    IF primary \in versions THEN primary
    ELSE IF fallback \in versions THEN fallback
    ELSE ""

\* _get_latest_version: the record (NoRecord for None), the cache and the
\* provider calls made.  latest_of[p] is what get_latest_version of provider
\* p answers when it is called.
get_latest_version_step(cache, config, force_update, project_ids, latest_of) ==
    LET primary == config.default_mod_provider
        fallback == config.fallback_mod_provider
        game_version == config.minecraft_version
        mod_loader == config.mod_loader
        cached_info(p) == cache_get_version_info(cache, p, project_ids[p],
                                                 game_version, mod_loader)
        cached_versions == {p \in DOMAIN project_ids :
                               /\ Truthy(project_ids[p])
                               /\ reads_cache(force_update)
                               /\ cached_info(p) # NoRecord}
        asks(p) == p \in providers_of(config) /\ Truthy(dict_get(project_ids, p))
        order == IF primary = fallback THEN <<primary, primary>>
                 ELSE <<primary, fallback>>
        asked == SelectSeq(order, asks)
        calls == [i \in 1..Len(asked) |-> <<"get_latest_version", asked[i]>>]
        versions == {p \in Range(asked) : latest_of[p] # NoRecord}
        store(c, p) == IF p \in versions
                       THEN cache_set_version_info(c, p, project_ids[p],
                                game_version, mod_loader, latest_of[p])
                       ELSE c
        cache2 == store(store(cache, primary), fallback)
    IN IF cached_choice(primary, fallback, cached_versions) # ""
       THEN [info |-> cached_info(cached_choice(primary, fallback,
                                                cached_versions)),
             cache |-> cache, calls |-> <<>>]
       ELSE [info |-> IF live_choice(primary, fallback, versions) # ""
                      THEN latest_of[live_choice(primary, fallback, versions)]
                      ELSE NoRecord,
             cache |-> cache2, calls |-> calls]

NoInfo == [mod_id |-> None, current_version |-> None, latest_version |-> None,
           update_available |-> FALSE, version_info |-> NoRecord,
           provider |-> ""]

\* _check_for_update from line 307 on, given what compare_versions did
verdict_of(mod_metadata, r, cmp) ==
    IF cmp.raised
    THEN [state |-> "ERROR", info |-> NoInfo, resolved |-> r.info,
          cache |-> r.cache, calls |-> r.calls]
    ELSE [state |-> "VERDICT_READY",
          info |-> [mod_id |-> mod_metadata.mod_id,
                    current_version |-> mod_metadata.version,
                    latest_version |-> r.info.version_number,
                    update_available |-> cmp.value,
                    version_info |-> r.info,
                    provider |-> r.info.provider],
          resolved |-> r.info, cache |-> r.cache, calls |-> r.calls]

\* _check_for_update from line 289 on, given the record r.info that
\* _get_latest_version returned (with the cache and the calls it made)
update_info_of(mod_metadata, r) ==
    IF r.info = NoRecord \/ ~Truthy(r.info.version_number)
    THEN [state |-> "ABANDONED", info |-> NoInfo, resolved |-> r.info,
          cache |-> r.cache, calls |-> r.calls]
    ELSE verdict_of(mod_metadata, r,
             compare_versions(mod_metadata.version, r.info.version_number))

\* _check_for_update: the package's final state, its update_info (NoInfo for
\* None), the resolved record, the cache and the provider calls made
check_for_update_step(cache, config, force_update, mod_metadata, project_ids, latest_of) ==
    IF ~Truthy(mod_metadata.version)
    THEN [state |-> "ABANDONED", info |-> NoInfo, resolved |-> NoRecord,
          cache |-> cache, calls |-> <<>>]
    ELSE update_info_of(mod_metadata,
             get_latest_version_step(cache, config, force_update, project_ids,
                                     latest_of))

\* the loop body from line 165 on, given what _get_project_ids returned
process_ids(config, force_update, mod_metadata, ids, latest_of) ==
    [check_for_update_step(ids.cache, config, force_update, mod_metadata,
                           ids.ids, latest_of)
        EXCEPT !.calls = ids.calls \o @]

\* the loop body without the test of lines 161-163
process_metadata_noIgnore(config, force_update, m, id_of, latest_of) ==
    IF ~Truthy(m[1].mod_id)
    THEN [state |-> "SKIPPED", info |-> NoInfo, resolved |-> NoRecord,
          cache |-> m[2], calls |-> <<>>]
    ELSE process_ids(config, force_update, m[1],
             get_project_ids_step(m[2], config, force_update, m[1].mod_id,
                                  id_of),
             latest_of)

\* the loop body from line 156 on, given what _get_mod_metadata returned
process_metadata(config, force_update, m, id_of, latest_of) ==
    IF ~Truthy(m[1].mod_id) \/ m[1].mod_id \in config.ignore_mods
    THEN [state |-> "SKIPPED", info |-> NoInfo, resolved |-> NoRecord,
          cache |-> m[2], calls |-> <<>>]
    ELSE process_ids(config, force_update, m[1],
             get_project_ids_step(m[2], config, force_update, m[1].mod_id,
                                  id_of),
             latest_of)

\* one iteration of the loop of check_updates over mod_files
process_file(cache, config, force_update, file_path, on_disk, id_of, latest_of) ==
    process_metadata(config, force_update,
        get_mod_metadata_step(cache, force_update, file_path, on_disk),
        id_of, latest_of)

\* updates.append(update_info) for every update_info
updates_append_all(updates, r) ==
    IF r.state = "VERDICT_READY" THEN Append(updates, r.info) ELSE updates

\* lines 172-173: updates.append(update_info) when there is an update_info
\* and its update_available is true; r is what the iteration did
updates_append(updates, r) ==
    IF r.state = "VERDICT_READY" /\ r.info.update_available
    THEN Append(updates, r.info) ELSE updates

\* Config.create_download_directory (data/config.py):
\* <<what it returns, whether the directory exists afterwards,
\*   whether makedirs created it>>
create_download_directory(dir_exists, makedirs_ok) ==
    IF dir_exists THEN <<TRUE, TRUE, FALSE>>
    ELSE IF makedirs_ok THEN <<TRUE, TRUE, TRUE>>
    ELSE <<FALSE, FALSE, FALSE>>

\* successful_downloads.append(update) whatever download_mod returned
download_append_always(successful, update, dry_run, success) ==
    Append(successful, update)

\* download_updates, lines 448-459: the update is appended in a dry run, and
\* otherwise when download_mod returned True
download_append(successful, update, dry_run, success) ==
    IF dry_run \/ success THEN Append(successful, update) ELSE successful

\* a skipped file is not added to processed_files
processed_files_add_notSkipped(processed_files, normalized_path, r) ==
    IF r.state = "SKIPPED" THEN processed_files
    ELSE processed_files \cup {normalized_path}

\* check_updates, line 149: processed_files.add(normalized_path), before the
\* try and so whatever the iteration r does
processed_files_add(processed_files, normalized_path, r) ==
    processed_files \cup {normalized_path}

\* an iteration that raised is the last one of the loop
next_index_stopOnError(idx, r, total_mods) ==
    IF r.state = "ERROR" THEN total_mods + 1 ELSE idx + 1

\* the for loop of check_updates: the next file follows whatever the
\* iteration did, also after the except clause of lines 178-179; r is what
\* the iteration did
next_index(idx, r, total_mods) == idx + 1

\* one entry of the record of a pass: a file processed by the loop, a call
\* of cache.clean_up with its argument, or a call of cache.save
Event(op, files) == [op |-> op, files |-> files]

\* the cache is saved and clean_up is not called
end_of_pass_noCleanUp(cache, processed_files) ==
    [cache |-> cache, saved |-> cache,
     events |-> <<Event("save", {})>>]

\* check_updates, lines 181-183: self.cache.clean_up(processed_files), then
\* self.cache.save()
end_of_pass(cache, processed_files) ==
    [cache |-> cache_clean_up(cache, processed_files),
     saved |-> cache_clean_up(cache, processed_files),
     events |-> <<Event("clean_up", processed_files), Event("save", {})>>]

\* the providers that a list of calls asks op of
called(calls, op) == {c[2] : c \in {d \in Range(calls) : d[1] = op}}

\* ------------------------------------------------------------------------
\* State
\* ------------------------------------------------------------------------
VARIABLES
    current_version,  \* compare_versions: its first argument
    latest_version,   \* compare_versions: its second argument
    current,          \* the Version built from current_version
    latest,           \* the Version built from latest_version
    result,           \* what compare_versions returned, or the exception
    renormalized,     \* normalize_version applied to current.normalized
    other_version,    \* a third version string, compared after latest_version
    chain,            \* what compare_versions returned for the pairs with
                      \* other_version
    vpc               \* position in the version comparison

verVars == <<current_version, latest_version, current, latest, result,
             renormalized, other_version, chain, vpc>>

VARIABLES
    config,           \* the Config of the running process
    force_update,     \* ModUpdateChecker.force_update
    disk,             \* the mod files in the scanned directories: path -> metadata
    saved,            \* the cache file as ModCache.save last wrote it
    cache,            \* the ModCache of the running process
    cpc,              \* "idle" between runs, "checking" inside check_updates
    mod_files,        \* check_updates: the files found, in discovery order
    idx,              \* check_updates: index of the next file to process
    processed_files,  \* check_updates: the files processed so far
    updates,          \* check_updates: the list it returns
    verdicts,         \* every update_info that _check_for_update built in this run
    last,             \* what processing the most recent file did, and what
                      \* get_latest_version answered where it was called
    runs,             \* completed runs
    outcomes,         \* check_updates: what each iteration of the loop did, in order
    events,           \* check_updates: the files processed and the calls of
                      \* cache.clean_up and cache.save of this pass, in order
    valid_dirs,       \* whether validate_mod_directories found a directory
    exit_code         \* what cli.run returned (-1 before and during a run)

orchVars == <<config, force_update, disk, saved, cache, cpc, mod_files, idx,
              processed_files, updates, verdicts, last, runs, outcomes,
              events, valid_dirs, exit_code>>

VARIABLES
    supplied,         \* per mod id and provider: the last id other than None
                      \* that was handed to the cache
    ids_op            \* the most recent operation on the project ids

idsVars == <<supplied, ids_op>>

VARIABLES
    prune_op          \* the most recent prune_old_versions call

pruneVars == <<prune_op>>

VARIABLES
    clean_op          \* the most recent clean_up call made on its own

cleanVars == <<clean_op>>

VARIABLES
    download_op       \* the download_updates call: its inputs, its position in
                      \* the loop and what it did to the world

downloadVars == <<download_op>>

VARIABLES
    provider_op       \* the operation of a provider that is in progress or
                      \* was made last

providerVars == <<provider_op>>

VARIABLES
    load_op           \* the most recent ModCache.load and the cache file

loadVars == <<load_op>>

VARIABLES
    release           \* the version number of the latest release that the
                      \* providers have of the project, None while the
                      \* providers' answers are not tied to one release

worldVars == <<release>>

VARIABLES
    in_progress       \* the file that the loop of check_updates is working on,
                      \* where the iteration is followed stage by stage

stageVars == <<in_progress>>

\* the state of the operations that are exercised on their own
extVars == <<idsVars, pruneVars, cleanVars, downloadVars, providerVars, loadVars,
             worldVars, stageVars>>
\* ... and what each of them leaves alone
notIds == <<pruneVars, cleanVars, downloadVars, providerVars, loadVars,
    worldVars, stageVars>>
notPrune == <<idsVars, cleanVars, downloadVars, providerVars, loadVars,
    worldVars, stageVars>>
notClean == <<idsVars, pruneVars, downloadVars, providerVars, loadVars,
    worldVars, stageVars>>
notDownload == <<idsVars, pruneVars, cleanVars, providerVars, loadVars,
    worldVars, stageVars>>
notProvider == <<idsVars, pruneVars, cleanVars, downloadVars, loadVars,
    worldVars, stageVars>>
notLoad == <<idsVars, pruneVars, cleanVars, downloadVars, providerVars,
    worldVars, stageVars>>

vars == <<verVars, orchVars, extVars>>

\* ------------------------------------------------------------------------
\* Bounds and inputs
\* ------------------------------------------------------------------------
MaxNumLen == 5
MaxTail == 3
MaxLen == 5
MaxRuns == 2
MaxDay == 3
MaxUpdates == 3
MaxItems == 2
MaxChain == 2

Strings(A, n) == UNION {[1..k -> A] : k \in 0..n}

\* the version strings that the comments of version.py and the examples of
\* the specification name
Examples ==
    {<<"1", ".", "2", ".", "0">>, <<"1", ".", "3", ".", "0">>,
     <<"1", ".", "0", ".", "0">>, <<"1", ".", "2">>,
     <<"1", ".", "0", ".", "0", "-", "a", "l", "p", "h", "a">>,
     <<"M", "C", "1", ".", "1", "9", ".", "2", "-", "1", ".", "0", ".", "0">>,
     <<"m", "o", "d", "-", "1", ".", "2", ".", "3">>,
     <<"1", ".", "2", ".", "3", "-", "a", "l", "p", "h", "a", ".", "1">>,
     <<"1", ".", "2", ".", "3", "+", "b", "u", "i", "l", "d", ".", "5">>,
     <<"1", ".", "2", ".", "3", "_", "a", "l", "p", "h", "a", "1">>}

\* dot-separated non-negative integers
IsDotted(s) ==
    /\ s # <<>>
    /\ \A i \in 1..Len(s) : s[i] \in DigitDot
    /\ s[1] # "." /\ s[Len(s)] # "."
    /\ \A i \in 1..(Len(s) - 1) : ~(s[i] = "." /\ s[i + 1] = ".")

DottedStrings ==
    {s \in Strings({"0", "1", "."}, MaxNumLen) : IsDotted(s)}
        \cup {s \in Examples : IsDotted(s)}

VersionStrings ==
    {<<"1">> \o t : t \in Strings({"1", ".", "-", "+", "a"}, MaxTail)}
        \cup Examples

AnyStrings == Strings({"1", ".", "-", "+", "a", "v", " "}, MaxLen) \cup Examples

\* ------------------------------------------------------------------------
\* The world of the checker
\* ------------------------------------------------------------------------
V10 == <<"1", ".", "0">>
V11 == <<"1", ".", "1">>
Sodium == <<"sodium">>
Optifine == <<"optifine">>

Mods == {Sodium, Optifine}

FileOrder == <<"a.jar", "b.jar">>
Files == Range(FileOrder)

\* what get_mod_metadata can extract from a mod file: a mod with a version,
\* an ignored mod, a file without mod id, a mod without version, a mod whose
\* version is a JSON number
Packages ==
    {[mod_id |-> Sodium, version |-> V10],
     [mod_id |-> Optifine, version |-> V10],
     [mod_id |-> None, version |-> None],
     [mod_id |-> Sodium, version |-> None],
     [mod_id |-> Sodium, version |-> Number]}

\* the cache file that the first run finds: none, or the one that a run
\* left behind when optifine was not yet on the ignore list
SavedCaches ==
    {EmptyCache,
     cache_set_version_info(
         cache_set_project_ids(EmptyCache, Optifine, <<"AAA">>, None),
         "modrinth", <<"AAA">>, <<"1.20.1">>, "fabric",
         [provider |-> "modrinth", project_id |-> <<"AAA">>,
          version_number |-> V11])}

Disks == UNION {[S -> Packages] : S \in SUBSET Files}

Configs ==
    {[default_mod_provider |-> p,
      fallback_mod_provider |-> CHOOSE q \in Providers : q # p,
      curseforge_api_key |-> TRUE,
      ignore_mods |-> {Optifine},
      minecraft_version |-> <<"1.20.1">>,
      mod_loader |-> "fabric"] : p \in Providers}

\* the project that a provider's search finds for a mod id
RemoteProject(p, mod_id) ==
    IF p = "modrinth" THEN <<"AAA">> ELSE <<"BBB">>

\* the answers of get_project_id: the project, or None
IdAnswers(p, mod_id) == {None, RemoteProject(p, mod_id)}

\* the answers of get_latest_version of provider p for a project: a record
\* with or without a version number, or None
LatestAnswers(p, project_id) ==
    {NoRecord} \cup
    {[provider |-> p, project_id |-> project_id, version_number |-> v] :
        v \in {V10, V11, None}}

NoLast == [file |-> "", state |-> "", info |-> NoInfo, resolved |-> NoRecord,
           calls |-> <<>>, answers |-> [p \in Providers |-> NoRecord]]

OrchIdle ==
    /\ force_update = FALSE
    /\ saved \in SavedCaches
    /\ cache = EmptyCache
    /\ cpc = "idle"
    /\ mod_files = <<>>
    /\ idx = 1
    /\ processed_files = {}
    /\ updates = <<>>
    /\ verdicts = <<>>
    /\ last = NoLast
    /\ runs = 0
    /\ outcomes = <<>>
    /\ events = <<>>
    /\ valid_dirs = TRUE
    /\ exit_code = -1

NoIdsOp == [op |-> "", mod_id |-> None, ids |-> [p \in Providers |-> None],
            before |-> EmptyDict]

IdsIdle ==
    /\ supplied = [m \in Mods |-> [p \in Providers |-> None]]
    /\ ids_op = NoIdsOp

NoPruneOp == [before |-> EmptyDict, now |-> 0, max_age_days |-> 0,
              pruned_count |-> -1]

PruneIdle == prune_op = NoPruneOp

NoCleanOp == [before |-> EmptyCache, processed_files |-> {}, called |-> FALSE]

CleanIdle == clean_op = NoCleanOp

NoDownloadOp ==
    [pc |-> "idle", updates |-> <<>>, dry_run |-> FALSE, providers |-> {},
     dir_exists |-> FALSE, makedirs_ok |-> FALSE, made |-> FALSE, i |-> 1,
     successful |-> <<>>, downloads |-> <<>>, returned |-> <<>>]

DownloadIdle == download_op = NoDownloadOp

NoBody == [kind |-> "", items |-> <<>>]

NoAnswer == [id |-> None, info |-> NoRecord, ok |-> FALSE, raised |-> FALSE]

NoProviderOp ==
    [pc |-> "idle", provider |-> "", op |-> "", api_key |-> TRUE,
     files |-> "none", stage |-> "main", attempt |-> 0, waits |-> <<>>,
     exhausted |-> FALSE,
     body |-> NoBody, result |-> NoAnswer]

ProviderIdle == provider_op = NoProviderOp

NoFile == [kind |-> "missing", keys |-> {}, data |-> EmptyCache]

NoLoad == [raised |-> FALSE, exception |-> "", cache |-> EmptyCache,
           backup |-> FALSE, in_place |-> FALSE]

NoLoadOp == [called |-> FALSE, file |-> NoFile, rename_ok |-> TRUE,
             result |-> NoLoad]

LoadIdle == load_op = NoLoadOp

WorldIdle == release = None

\* no iteration is under way: the loop is at a package boundary
NoPackage == [pc |-> "BOUNDARY", metadata |-> [mod_id |-> None, version |-> None],
              ids |-> EmptyDict, calls |-> <<>>]

StageIdle == in_progress = NoPackage

ExtIdle ==
    /\ IdsIdle /\ PruneIdle /\ CleanIdle
    /\ DownloadIdle /\ ProviderIdle /\ LoadIdle
    /\ WorldIdle
    /\ StageIdle

NoChain == [next |-> Returned(FALSE), ends |-> Returned(FALSE)]

VerIdle ==
    /\ current = NoVersion
    /\ latest = NoVersion
    /\ result = Returned(FALSE)
    /\ renormalized = None
    /\ other_version = None
    /\ chain = NoChain
    /\ vpc = "start"

\* the checker is not running while version strings are compared
OrchUnused ==
    /\ config \in {c \in Configs : c.default_mod_provider = "modrinth"}
    /\ disk = EmptyDict
    /\ OrchIdle
    /\ saved = EmptyCache

\* ------------------------------------------------------------------------
\* Version comparison steps
\* ------------------------------------------------------------------------
\* compare_versions(current_version, latest_version), whole call
CompareVersions ==
    /\ vpc = "start"
    /\ current' = IF IsStr(current_version)
                  THEN Version(current_version) ELSE NoVersion
    /\ latest' = IF IsStr(current_version) /\ IsStr(latest_version)
                 THEN Version(latest_version) ELSE NoVersion
    /\ result' = compare_versions(current_version, latest_version)
    /\ vpc' = "compared"
    /\ UNCHANGED <<current_version, latest_version, renormalized,
                   other_version, chain>>
    /\ UNCHANGED orchVars
    /\ UNCHANGED extVars

\* normalize_version applied to a string that normalize_version returned
Renormalize ==
    /\ vpc = "compared"
    /\ current # NoVersion
    /\ renormalized' = normalize_version(current.normalized)
    /\ vpc' = "renormalized"
    /\ UNCHANGED <<current_version, latest_version, current, latest, result,
                   other_version, chain>>
    /\ UNCHANGED orchVars
    /\ UNCHANGED extVars

NextCompare == CompareVersions

NextOne == CompareVersions \/ Renormalize

\* pairs of dot-separated integer strings
InitNum ==
    /\ current_version \in DottedStrings
    /\ latest_version \in DottedStrings
    /\ VerIdle
    /\ ExtIdle
    /\ OrchUnused
SpecNum == InitNum /\ [][NextCompare]_vars

\* pairs of version strings with prerelease and build parts, and values that
\* are not strings
InitVer ==
    /\ current_version \in VersionStrings \cup {Number}
    /\ latest_version \in VersionStrings \cup {Number}
    /\ VerIdle
    /\ ExtIdle
    /\ OrchUnused
SpecVer == InitVer /\ [][NextCompare]_vars

\* _simple_version_compare(current_version, latest_version), whole call
SimpleVersionCompare ==
    /\ vpc = "start"
    /\ result' = simple_version_compare(current_version, latest_version)
    /\ vpc' = "fallback"
    /\ UNCHANGED <<current_version, latest_version, current, latest,
                   renormalized, other_version, chain>>
    /\ UNCHANGED orchVars
    /\ UNCHANGED extVars

\* pairs of dot-separated integer strings and of the example strings, handed
\* to the fallback comparison
InitFallback ==
    /\ current_version \in DottedStrings \cup Examples
    /\ latest_version \in DottedStrings \cup Examples
    /\ VerIdle
    /\ ExtIdle
    /\ OrchUnused
NextFallback == SimpleVersionCompare
SpecFallback == InitFallback /\ [][NextFallback]_vars

\* the suffixes [._-](alpha|beta|pre|rc|snapshot)\d* of line 187
KeywordSuffixes ==
    {<<sep>> \o k \o num : sep \in Separator, k \in Keywords,
                           num \in {<<>>, <<"1">>, <<"2">>}}

\* a release of dot-separated integers and the same release with a keyword
\* suffix, in both orders
InitSuffix ==
    /\ \E b \in DottedStrings : \E suffix \in KeywordSuffixes :
          \/ current_version = b \o suffix /\ latest_version = b
          \/ current_version = b /\ latest_version = b \o suffix
    /\ VerIdle
    /\ ExtIdle
    /\ OrchUnused
SpecSuffix == InitSuffix /\ [][NextCompare]_vars

\* compare_versions called on the three pairs of three version strings
CompareChain ==
    /\ vpc = "start"
    /\ result' = compare_versions(current_version, latest_version)
    /\ chain' = [next |-> compare_versions(latest_version, other_version),
                 ends |-> compare_versions(current_version, other_version)]
    /\ vpc' = "chained"
    /\ UNCHANGED <<current_version, latest_version, other_version, current,
                   latest, renormalized>>
    /\ UNCHANGED orchVars
    /\ UNCHANGED extVars

\* short version strings with prerelease parts, and some with more
\* components and with build parts
ChainStrings ==
    {<<"1">> \o t : t \in Strings({"1", "-", "a"}, MaxChain)}
        \cup {<<"1", ".", "1">>, <<"1", ".", "1", "-", "a">>,
               <<"1", "+", "a">>, <<"1", "-", "a", "+", "1">>,
               <<"1", ".", "1", "+", "a", "-", "1">>}

\* triples of version strings
InitChain ==
    /\ current_version \in ChainStrings
    /\ latest_version \in ChainStrings
    /\ other_version \in ChainStrings
    /\ current = NoVersion
    /\ latest = NoVersion
    /\ result = Returned(FALSE)
    /\ renormalized = None
    /\ chain = NoChain
    /\ vpc = "start"
    /\ ExtIdle
    /\ OrchUnused
NextChain == CompareChain
SpecChain == InitChain /\ [][NextChain]_vars

\* one string compared with itself
InitOne ==
    /\ current_version \in AnyStrings
    /\ latest_version = current_version
    /\ VerIdle
    /\ ExtIdle
    /\ OrchUnused
SpecOne == InitOne /\ [][NextOne]_vars

\* ------------------------------------------------------------------------
\* A run of the checker: cli.run, ModUpdateChecker.check_updates
\* ------------------------------------------------------------------------
\* the metadata that _get_mod_metadata hands to the loop for file_path
metadata_used(file_path) ==
    get_mod_metadata_step(cache, force_update, file_path, disk[file_path])[1]

\* cli.run up to the loop of check_updates: the configuration is loaded (with
\* or without a CurseForge API key), the cache is loaded, the checker is built with or without --force, and the
\* directories are scanned; without a valid directory or without mod files
\* check_updates returns [] and run returns 0
StartRun ==
    /\ cpc = "idle"
    /\ runs < MaxRuns
    /\ \E force \in BOOLEAN, key \in BOOLEAN :
        /\ force_update' = force
        /\ config' = [config EXCEPT !.curseforge_api_key = key]
    /\ cache' = saved
    /\ valid_dirs' \in BOOLEAN
    /\ mod_files' = IF valid_dirs'
                    THEN SelectSeq(FileOrder, LAMBDA f : f \in DOMAIN disk)
                    ELSE <<>>
    /\ idx' = 1
    /\ processed_files' = {}
    /\ updates' = <<>>
    /\ verdicts' = <<>>
    /\ outcomes' = <<>>
    /\ events' = <<>>
    /\ last' = NoLast
    /\ IF mod_files' = <<>>
       THEN cpc' = "idle" /\ runs' = runs + 1 /\ exit_code' = 0
       ELSE cpc' = "checking" /\ runs' = runs /\ exit_code' = -1
    /\ UNCHANGED <<disk, saved>>
    /\ UNCHANGED verVars
    /\ UNCHANGED extVars

\* one iteration of the loop over mod_files (checker.py lines 147-179)
ProcessFile ==
    /\ cpc = "checking"
    /\ idx <= Len(mod_files)
    /\ \E file_path \in {mod_files[idx]} :
       \E ask_id \in {called(process_file(cache, config, force_update,
                          file_path, disk[file_path],
                          [p \in Providers |-> None],
                          [p \in Providers |-> NoRecord]).calls,
                          "get_project_id")} :
       \* the providers answer the calls that are made, and only them
       \E id_of \in {f \in [Providers -> {None} \cup
                               {RemoteProject(p, metadata_used(file_path).mod_id) :
                                    p \in Providers}] :
                        \A p \in Providers :
                            f[p] \in IF p \in ask_id
                                     THEN IdAnswers(p, metadata_used(file_path).mod_id)
                                     ELSE {None}} :
       \E ask_latest \in {called(process_file(cache, config, force_update,
                              file_path, disk[file_path], id_of,
                              [p \in Providers |-> NoRecord]).calls,
                              "get_latest_version")} :
       \E latest_of \in {f \in [Providers -> UNION {LatestAnswers(p,
                               RemoteProject(p, metadata_used(file_path).mod_id)) :
                                   p \in Providers}] :
                            \A p \in Providers :
                                f[p] \in IF p \in ask_latest
                                         THEN LatestAnswers(p, RemoteProject(p,
                                                  metadata_used(file_path).mod_id))
                                         ELSE {NoRecord}} :
       \E r \in {process_file(cache, config, force_update, file_path,
                              disk[file_path], id_of, latest_of)} :
          /\ cache' = r.cache
          /\ last' = [file |-> file_path, state |-> r.state,
                      info |-> r.info, resolved |-> r.resolved,
                      calls |-> r.calls, answers |-> latest_of]
          /\ verdicts' = IF r.state = "VERDICT_READY"
                         THEN Append(verdicts, r.info) ELSE verdicts
          /\ updates' = updates_append(updates, r)
          /\ outcomes' = Append(outcomes, [file |-> file_path, state |-> r.state,
                                            info |-> r.info])
          /\ idx' = next_index(idx, r, Len(mod_files))
          /\ processed_files' = processed_files_add(processed_files,
                                                    mod_files[idx], r)
    /\ events' = Append(events, Event("process", {mod_files[idx]}))
    /\ UNCHANGED <<config, force_update, disk, saved, cpc, mod_files, runs,
                   valid_dirs, exit_code>>
    /\ UNCHANGED verVars
    /\ UNCHANGED extVars

\* the end of check_updates (lines 181-192): clean_up, save, return
FinishCheck ==
    /\ cpc = "checking"
    /\ idx > Len(mod_files)
    /\ \E e \in {end_of_pass(cache, processed_files)} :
          /\ cache' = e.cache
          /\ saved' = e.saved
          /\ events' = events \o e.events
    /\ cpc' = "idle"
    /\ runs' = runs + 1
    /\ exit_code' = 0
    /\ UNCHANGED <<config, force_update, disk, mod_files, idx, processed_files,
                   updates, verdicts, last, outcomes, valid_dirs>>
    /\ UNCHANGED verVars
    /\ UNCHANGED extVars

\* Ctrl-C while check_updates runs: KeyboardInterrupt is not an Exception, so
\* it leaves the loop and check_updates, and run returns 130 (cli.py 171-173);
\* the cache is not saved
Interrupt ==
    /\ cpc = "checking"
    /\ cpc' = "idle"
    /\ runs' = runs + 1
    /\ exit_code' = 130
    /\ UNCHANGED <<config, force_update, disk, saved, cache, mod_files, idx,
                   processed_files, updates, verdicts, last, outcomes,
                   events, valid_dirs>>
    /\ UNCHANGED verVars
    /\ UNCHANGED extVars

Init ==
    /\ config \in Configs
    /\ disk \in Disks
    /\ OrchIdle
    /\ current_version = None
    /\ latest_version = None
    /\ VerIdle
    /\ ExtIdle

Next == StartRun \/ ProcessFile \/ FinishCheck \/ Interrupt

Spec == Init /\ [][Next]_vars

\* ------------------------------------------------------------------------
\* The project ids of the cache, operated on their own
\* ------------------------------------------------------------------------
\* the project ids that callers and providers hand over, "" included
ProjectIds == {<<"AAA">>, <<"BBB">>, <<>>}

\* the id that the cache stores for mod_id and provider p, None without one
StoredId(c, mod_id, p) ==
    IF mod_id \in DOMAIN c.project_ids
    THEN dict_get(c.project_ids[mod_id], p) ELSE None

\* the dict that the cache stores for mod_id, {} without one
StoredIds(c, mod_id) ==
    IF mod_id \in DOMAIN c.project_ids THEN c.project_ids[mod_id] ELSE EmptyDict

\* supplied, after the ids (a dict on some providers) were handed over
supply(sup, mod_id, ids) ==
    [sup EXCEPT ![mod_id] =
        [p \in Providers |->
            IF p \in DOMAIN ids /\ ids[p] # None THEN ids[p] ELSE @[p]]]

\* ModCache.set_project_ids(mod_id, modrinth_id, curseforge_id)
SetProjectIds ==
    /\ \E mod_id \in Mods, modrinth_id \in ProjectIds \cup {None},
          curseforge_id \in ProjectIds \cup {None} :
        \E ids \in {[p \in Providers |-> IF p = "modrinth" THEN modrinth_id
                                          ELSE curseforge_id]} :
          /\ cache' = cache_set_project_ids(cache, mod_id, modrinth_id,
                                            curseforge_id)
          /\ supplied' = supply(supplied, mod_id, ids)
          /\ ids_op' = [op |-> "set_project_ids", mod_id |-> mod_id,
                        ids |-> ids, before |-> StoredIds(cache, mod_id)]
    /\ UNCHANGED <<config, force_update, disk, saved, cpc, mod_files, idx,
                   processed_files, updates, verdicts, last, runs, outcomes,
                   events,
                   valid_dirs, exit_code>>
    /\ UNCHANGED verVars
    /\ UNCHANGED notIds

\* ModUpdateChecker._get_project_ids(mod_metadata) of a checker built with or
\* without --force and with or without a CurseForge API key
ResolveIds ==
    /\ \E mod_id \in Mods, force \in BOOLEAN, key \in BOOLEAN :
        \E cfg \in {[config EXCEPT !.curseforge_api_key = key]} :
        \E ask \in {called(get_project_ids_step(cache, cfg, force, mod_id,
                                 [p \in Providers |-> None]).calls,
                            "get_project_id")} :
        \* the providers answer the calls that are made, and only them
        \E id_of \in {f \in [Providers -> ProjectIds \cup {None}] :
                         \A p \in Providers \ ask : f[p] = None} :
        \E r \in {get_project_ids_step(cache, cfg, force, mod_id, id_of)} :
        \E ids \in {[p \in Providers |->
                        IF p \in called(r.calls, "get_project_id")
                        THEN id_of[p] ELSE None]} :
          /\ cache' = r.cache
          /\ supplied' = supply(supplied, mod_id, ids)
          /\ ids_op' = [op |-> "_get_project_ids", mod_id |-> mod_id,
                        ids |-> ids, before |-> StoredIds(cache, mod_id)]
    /\ UNCHANGED <<config, force_update, disk, saved, cpc, mod_files, idx,
                   processed_files, updates, verdicts, last, runs, outcomes,
                   events,
                   valid_dirs, exit_code>>
    /\ UNCHANGED verVars
    /\ UNCHANGED notIds

InitIds ==
    /\ config \in Configs
    /\ disk = EmptyDict
    /\ OrchIdle
    /\ saved = EmptyCache
    /\ current_version = None
    /\ latest_version = None
    /\ VerIdle
    /\ ExtIdle

NextIds == SetProjectIds \/ ResolveIds

SpecIds == InitIds /\ [][NextIds]_vars

\* ------------------------------------------------------------------------
\* Pruning the version records
\* ------------------------------------------------------------------------
Days == 0..MaxDay

\* the date_published values of a version record: none, "", a text that is
\* no date, and the dates of the days in their three notations
DatesPublished ==
    {NoDate, EmptyDate, NotADate}
        \cup {IsoDate(d, z) : d \in Days, z \in {"", "Z", "+00:00"}}

VersionKeys == {cache_key("curseforge", <<"BBB">>, <<"1.20.1">>, "fabric"),
                cache_key("modrinth", <<"AAA">>, <<"1.20.1">>, "fabric")}

\* the version records of a cache file
VersionMaps ==
    UNION {[K -> [date_published : DatesPublished]] : K \in SUBSET VersionKeys}

\* cache.prune_old_versions(max_age_days) at time now
Prune ==
    /\ prune_op = NoPruneOp
    /\ \E now \in Days, max_age_days \in Days :
        \E r \in {prune_old_versions(cache.latest_versions, now, max_age_days)} :
          /\ cache' = [cache EXCEPT !.latest_versions = r.latest_versions]
          /\ prune_op' = [before |-> cache.latest_versions, now |-> now,
                          max_age_days |-> max_age_days,
                          pruned_count |-> r.pruned_count]
    /\ UNCHANGED <<config, force_update, disk, saved, cpc, mod_files, idx,
                   processed_files, updates, verdicts, last, runs, outcomes,
                   events,
                   valid_dirs, exit_code>>
    /\ UNCHANGED verVars
    /\ UNCHANGED notPrune

\* a cache object with given contents, no checker running
CacheOnly(caches) ==
    /\ config \in {c \in Configs : c.default_mod_provider = "modrinth"}
    /\ disk = EmptyDict
    /\ force_update = FALSE
    /\ saved = EmptyCache
    /\ cache \in caches
    /\ cpc = "idle"
    /\ mod_files = <<>>
    /\ idx = 1
    /\ processed_files = {}
    /\ updates = <<>>
    /\ verdicts = <<>>
    /\ last = NoLast
    /\ runs = 0
    /\ outcomes = <<>>
    /\ events = <<>>
    /\ valid_dirs = TRUE
    /\ exit_code = -1
    /\ current_version = None
    /\ latest_version = None
    /\ VerIdle
    /\ ExtIdle

InitPrune ==
    CacheOnly({[EmptyCache EXCEPT !.latest_versions = m] : m \in VersionMaps})

NextPrune == Prune

SpecPrune == InitPrune /\ [][NextPrune]_vars

\* ------------------------------------------------------------------------
\* Cleaning the mod file entries
\* ------------------------------------------------------------------------
\* paths of mod files: the two of the mods directory and one that is gone
Paths == Files \cup {"gone.jar"}

\* caches with entries in all their maps
FullCaches ==
    {[mod_files |-> m,
      project_ids |-> Put(EmptyDict, Sodium, Put(EmptyDict, "modrinth", <<"AAA">>)),
      latest_versions |-> Put(EmptyDict,
          cache_key("modrinth", <<"AAA">>, <<"1.20.1">>, "fabric"),
          [provider |-> "modrinth", project_id |-> <<"AAA">>,
           version_number |-> V11]),
      downloaded_files |-> Put(EmptyDict, <<"sodium", ":", "1.1">>,
                               [file_path |-> "sodium-1.1.jar"])] :
        m \in UNION {[K -> {[mod_id |-> Sodium, version |-> V10],
                            [mod_id |-> None, version |-> None]}] :
                         K \in SUBSET Paths}}

\* cache.clean_up(processed_files)
CleanUp ==
    /\ ~clean_op.called
    /\ \E S \in SUBSET Paths :
          /\ cache' = cache_clean_up(cache, S)
          /\ clean_op' = [before |-> cache, processed_files |-> S,
                          called |-> TRUE]
    /\ UNCHANGED <<config, force_update, disk, saved, cpc, mod_files, idx,
                   processed_files, updates, verdicts, last, runs, outcomes,
                   events,
                   valid_dirs, exit_code>>
    /\ UNCHANGED verVars
    /\ UNCHANGED notClean

InitClean == CacheOnly(FullCaches)

NextClean == CleanUp

SpecClean == InitClean /\ [][NextClean]_vars

\* ------------------------------------------------------------------------
\* download_updates on its own
\* ------------------------------------------------------------------------
\* the update_info dictionaries handed to download_updates
UpdateVerdicts ==
    {[mod_id |-> Sodium, provider |-> "modrinth", latest_version |-> V11],
     [mod_id |-> Sodium, provider |-> "curseforge", latest_version |-> V11],
     [mod_id |-> Optifine, provider |-> "curseforge", latest_version |-> V10]}

UpdateLists == UNION {[1..k -> UpdateVerdicts] : k \in 0..MaxUpdates}

\* download_updates(updates, dry_run) up to the loop: the early returns and
\* the download directory
StartDownload ==
    /\ download_op.pc = "idle"
    /\ \E us \in UpdateLists, d \in BOOLEAN, ex \in BOOLEAN, ok \in BOOLEAN,
          key \in BOOLEAN :
          \E c \in {create_download_directory(ex, ok)} :
             download_op' =
                 [pc |-> IF us = <<>> \/ (~d /\ ~c[1]) THEN "done" ELSE "loop",
                  updates |-> us,
                  dry_run |-> d,
                  providers |->
                      providers_of([config EXCEPT !.curseforge_api_key = key]),
                  dir_exists |-> ex,
                  makedirs_ok |-> ok,
                  made |-> us # <<>> /\ ~d /\ c[3],
                  i |-> 1,
                  successful |-> <<>>,
                  downloads |-> <<>>,
                  returned |-> <<>>]
    /\ UNCHANGED orchVars
    /\ UNCHANGED verVars
    /\ UNCHANGED notDownload

\* one iteration of the loop over updates; download_mod answers True or False
DownloadOne ==
    /\ download_op.pc = "loop"
    /\ download_op.i <= Len(download_op.updates)
    /\ \E update \in {download_op.updates[download_op.i]} :
          IF update.provider \notin download_op.providers
          THEN download_op' = [download_op EXCEPT !.i = @ + 1]
          ELSE IF download_op.dry_run
          THEN download_op' =
                   [download_op EXCEPT
                       !.i = @ + 1,
                       !.successful = download_append(@, update, TRUE, FALSE)]
          ELSE \E success \in BOOLEAN :
                   download_op' =
                       [download_op EXCEPT
                           !.i = @ + 1,
                           !.downloads =
                               Append(@, [index |-> download_op.i,
                                          success |-> success]),
                           !.successful =
                               download_append(@, update, FALSE, success)]
    /\ UNCHANGED orchVars
    /\ UNCHANGED verVars
    /\ UNCHANGED notDownload

\* return successful_downloads
FinishDownload ==
    /\ download_op.pc = "loop"
    /\ download_op.i > Len(download_op.updates)
    /\ download_op' = [download_op EXCEPT !.pc = "done",
                                          !.returned = download_op.successful]
    /\ UNCHANGED orchVars
    /\ UNCHANGED verVars
    /\ UNCHANGED notDownload

InitDownload == CacheOnly({EmptyCache})

NextDownload == StartDownload \/ DownloadOne \/ FinishDownload

SpecDownload == InitDownload /\ [][NextDownload]_vars

\* ------------------------------------------------------------------------
\* One operation of a provider
\* ------------------------------------------------------------------------
\* the mod that is looked up, and how the provider's search names it
ModId == <<"s", "o">>
ModTitle == <<"S", "o">>
OtherName == <<"x">>
\* a project id as the provider's JSON has it: Modrinth's is a string,
\* CurseForge's is a number, given by its digits
RawId(p) == IF p = "modrinth" THEN <<"A", "A">> ELSE <<"4", "2">>

Lists(A, n) == UNION {[1..k -> A] : k \in 0..n}

\* bodies that are not the JSON the operation reads
BadBodies == {[kind |-> k, items |-> <<>>] : k \in {"not_json", "not_object"}}

\* the hits of a search: each may lack its slug, its name or its id
SearchHits(p) ==
    {[is_dict |-> FALSE, slug |-> None, name |-> None, id |-> None]}
    \cup {[is_dict |-> TRUE, slug |-> sl, name |-> n, id |-> i] :
             sl \in {None, ModId, OtherName},
             n \in {None, ModTitle, OtherName},
             i \in {None, RawId(p)}}

ListFields == {"match", "other", "null"}

\* the versions of a Modrinth project
ModrinthVersions ==
    {[is_dict |-> FALSE, loaders |-> "other", game_versions |-> "other",
      version_number |-> None, date_published |-> "day"]}
    \cup {[is_dict |-> TRUE, loaders |-> l, game_versions |-> g,
           version_number |-> v, date_published |-> "day"] :
             l \in ListFields, g \in ListFields, v \in {None, V11}}

\* the files of a CurseForge project, none of them a server pack and all
\* of the requested loader (loaders says whether the file is for the loader
\* asked for; get_latest_version does not read it).  A displayName of None
\* is null, the empty one is a missing or empty name.
CurseForgeFiles ==
    {[is_dict |-> FALSE, gameVersions |-> "other", isAvailable |-> TRUE,
      isServerPack |-> FALSE, loaders |-> "match",
      fileDate |-> "missing", displayName |-> None]}
    \cup {[is_dict |-> TRUE, gameVersions |-> g, isAvailable |-> a,
           isServerPack |-> FALSE, loaders |-> "match",
           fileDate |-> d, displayName |-> n] :
             g \in ListFields, a \in BOOLEAN,
             d \in {"missing", "null", "day"},
             n \in {None, <<>>, <<"s", "o", "-", "1", ".", "1">>}}

\* the answers to download-url: an object with or without the url
DirectUrls == {[data |-> None], [data |-> <<"u">>]}

ItemsOf(p, op, stage) ==
    IF op = "get_project_id" THEN Lists(SearchHits(p), MaxItems)
    ELSE IF op = "get_latest_version"
    THEN Lists(IF p = "modrinth" THEN ModrinthVersions ELSE CurseForgeFiles,
               MaxItems)
    ELSE IF stage = "resolve" THEN Lists(DirectUrls, 1)
    ELSE {<<>>}

\* what a request of the operation can be answered with
Bodies(p, op, stage) ==
    {[kind |-> "object", items |-> it] : it \in ItemsOf(p, op, stage)}
    \cup (IF op = "download_mod" /\ stage = "main" THEN {} ELSE BadBodies)

ProviderOps == {"get_project_id", "get_latest_version", "download_mod"}

\* the files of the version_info handed to download_mod: none, one without
\* url, one with a url, one with a "curseforge:" url
VersionFiles(p, op) ==
    IF op # "download_mod" THEN {"none"}
    ELSE IF p = "modrinth" THEN {"none", "no_url", "url"}
    ELSE {"none", "no_url", "url", "special"}

\* the operation up to its first request: CurseForge's lookups return None
\* without an API key, download_mod returns False without a file or a url
BeginOp ==
    /\ provider_op.pc = "idle"
    /\ \E p \in Providers, op \in ProviderOps :
          \E key \in (IF p = "modrinth" THEN {TRUE} ELSE BOOLEAN),
             files \in VersionFiles(p, op) :
             provider_op' =
                 [NoProviderOp EXCEPT
                     !.pc = IF \/ (~key /\ op # "download_mod")
                               \/ (op = "download_mod"
                                     /\ files \in {"none", "no_url"})
                            THEN "done" ELSE "request",
                     !.provider = p,
                     !.op = op,
                     !.api_key = key,
                     !.files = files,
                     !.stage = IF files = "special" THEN "resolve" ELSE "main"]
    /\ UNCHANGED orchVars
    /\ UNCHANGED verVars
    /\ UNCHANGED notProvider

\* _make_request: requests.request or raise_for_status raises
\* RequestException; it is retried until attempt max_retries - 1, then
\* _make_request returns None and the operation returns None or False.
\* attempt counts the failed attempts of the request, waits lists the
\* seconds it slept.
RequestFails ==
    /\ provider_op.pc = "request"
    /\ provider_op' =
           IF provider_op.attempt < max_retries - 1
           THEN [provider_op EXCEPT
                    !.attempt = @ + 1,
                    !.waits = Append(@, wait_time(provider_op.attempt))]
           ELSE [provider_op EXCEPT !.pc = "done", !.exhausted = TRUE,
                                    !.result = NoAnswer]
    /\ UNCHANGED orchVars
    /\ UNCHANGED verVars
    /\ UNCHANGED notProvider

\* what the operation returns once the response with this body arrived;
\* write_ok: the file was written without an exception
answer_of(p, op, body, write_ok) ==
    [id |-> IF op = "get_project_id" THEN get_project_id(p, ModId, body)
            ELSE None,
     info |-> IF op = "get_latest_version"
              THEN get_latest_version(p, RawId(p), body) ELSE NoRecord,
     ok |-> op = "download_mod" /\ write_ok,
     raised |-> FALSE]

\* the request succeeds: the lookups read the body; download_mod resolves a
\* "curseforge:" url first and then writes the file
Respond ==
    /\ provider_op.pc = "request"
    /\ \E body \in Bodies(provider_op.provider, provider_op.op,
                          provider_op.stage),
          write_ok \in (IF provider_op.op = "download_mod"
                           /\ provider_op.stage = "main"
                        THEN BOOLEAN ELSE {FALSE}) :
          provider_op' =
              IF provider_op.stage = "resolve"
                   /\ direct_download_url(body) # None
              THEN [provider_op EXCEPT !.stage = "main", !.attempt = 0,
                                       !.waits = <<>>, !.body = body]
              ELSE [provider_op EXCEPT
                       !.pc = "done",
                       !.body = IF provider_op.stage = "resolve"
                                   \/ provider_op.op # "download_mod"
                                THEN body ELSE provider_op.body,
                       !.result = answer_of(provider_op.provider,
                                            provider_op.op, body, write_ok)]
    /\ UNCHANGED orchVars
    /\ UNCHANGED verVars
    /\ UNCHANGED notProvider

InitProvider == CacheOnly({EmptyCache})

NextProvider == BeginOp \/ RequestFails \/ Respond

SpecProvider == InitProvider /\ [][NextProvider]_vars

\* ------------------------------------------------------------------------
\* The lookups of the providers on well-formed responses
\* ------------------------------------------------------------------------
\* the version number of the release published on a day
version_at(date) == IF date = "later" THEN V11 ELSE V10

\* releases of a Modrinth project: for the requested loader and game version
\* or not, published on a day or on a later day
ModrinthReleases ==
    {[is_dict |-> TRUE, loaders |-> l, game_versions |-> g,
      version_number |-> version_at(d), date_published |-> d] :
        l \in {"match", "other"}, g \in {"match", "other"},
        d \in {"day", "later"}}

\* files of a CurseForge project: for the requested game version and loader
\* or not, available or not, server pack or not
CurseForgeReleases ==
    {[is_dict |-> TRUE, gameVersions |-> g, isAvailable |-> a,
      isServerPack |-> sp, loaders |-> l, fileDate |-> d,
      displayName |-> <<"s", "o", "-">> \o version_at(d)] :
        g \in {"match", "other"}, a \in BOOLEAN, sp \in BOOLEAN,
        l \in {"match", "other"}, d \in {"day", "later"}}

ReleaseBodies(p) ==
    {[kind |-> "object", items |-> it] :
        it \in Lists(IF p = "modrinth" THEN ModrinthReleases
                     ELSE CurseForgeReleases, MaxItems)}

\* the request of get_latest_version succeeds with a list of releases
RespondReleases ==
    /\ provider_op.pc = "request"
    /\ provider_op.op = "get_latest_version"
    /\ \E body \in ReleaseBodies(provider_op.provider) :
          provider_op' =
              [provider_op EXCEPT
                  !.pc = "done",
                  !.body = body,
                  !.result = answer_of(provider_op.provider, provider_op.op,
                                       body, FALSE)]
    /\ UNCHANGED orchVars
    /\ UNCHANGED verVars
    /\ UNCHANGED notProvider

\* the id of another project of the provider
OtherId(p) == IF p = "modrinth" THEN <<"B", "B">> ELSE <<"7">>

\* search hits with slug, name and id: the slug is the mod id, the mod id in
\* another case, or another slug; the name is the mod id in another case or
\* another name
ProjectHits(p) ==
    {[is_dict |-> TRUE, slug |-> sl, name |-> n, id |-> i] :
        sl \in {ModId, ModTitle, OtherName},
        n \in {ModTitle, OtherName},
        i \in {RawId(p), OtherId(p)}}

HitBodies(p) ==
    {[kind |-> "object", items |-> it] :
        it \in Lists(ProjectHits(p), MaxItems)}

\* the request of get_project_id succeeds with a list of hits
RespondHits ==
    /\ provider_op.pc = "request"
    /\ provider_op.op = "get_project_id"
    /\ \E body \in HitBodies(provider_op.provider) :
          provider_op' =
              [provider_op EXCEPT
                  !.pc = "done",
                  !.body = body,
                  !.result = answer_of(provider_op.provider, provider_op.op,
                                       body, FALSE)]
    /\ UNCHANGED orchVars
    /\ UNCHANGED verVars
    /\ UNCHANGED notProvider

InitLatest == CacheOnly({EmptyCache})

NextLatest == BeginOp \/ RequestFails \/ RespondReleases \/ RespondHits

SpecLatest == InitLatest /\ [][NextLatest]_vars

\* ------------------------------------------------------------------------
\* Loading the cache file
\* ------------------------------------------------------------------------
\* what the cache file can hold when the program starts
CacheFiles ==
    {[kind |-> k, keys |-> {}, data |-> EmptyCache] :
        k \in {"missing", "unreadable", "invalid_json", "not_text",
               "not_object"}}
    \cup {[kind |-> "object", keys |-> K, data |-> c] :
             K \in {{}, {"mod_files"}, CacheKeys}, c \in FullCaches}

\* cli.run, lines 125-133 and 175-177: cache = ModCache.load(), inside the
\* try of run whose except Exception returns 1
Load ==
    /\ ~load_op.called
    /\ \E f \in CacheFiles, ok \in BOOLEAN :
        \E r \in {cache_load(f, ok)} :
          /\ load_op' = [called |-> TRUE, file |-> f, rename_ok |-> ok,
                         result |-> r]
          /\ cache' = r.cache
          /\ exit_code' = IF r.raised THEN 1 ELSE exit_code
    /\ UNCHANGED <<config, force_update, disk, saved, cpc, mod_files, idx,
                   processed_files, updates, verdicts, last, runs, outcomes,
                   events,
                   valid_dirs>>
    /\ UNCHANGED verVars
    /\ UNCHANGED notLoad

InitLoad == CacheOnly({EmptyCache})

NextLoad == Load

SpecLoad == InitLoad /\ [][NextLoad]_vars

\* ------------------------------------------------------------------------
\* Runs of the checker between which a mod file is replaced
\* ------------------------------------------------------------------------
\* between two runs the user puts another mod file at the path of a file
ReplaceFile ==
    /\ cpc = "idle"
    /\ runs < MaxRuns
    /\ \E file_path \in DOMAIN disk :
       \E package \in Packages \ {disk[file_path]} :
          disk' = [disk EXCEPT ![file_path] = package]
    /\ UNCHANGED <<config, force_update, saved, cache, cpc, mod_files, idx,
                   processed_files, updates, verdicts, last, runs, outcomes,
                   events, valid_dirs, exit_code>>
    /\ UNCHANGED verVars
    /\ UNCHANGED extVars

\* one mod file in the directory, no cache file
InitReplace ==
    /\ config \in {c \in Configs : c.default_mod_provider = "modrinth"}
    /\ disk \in [{"a.jar"} -> Packages]
    /\ OrchIdle
    /\ saved = EmptyCache
    /\ current_version = None
    /\ latest_version = None
    /\ VerIdle
    /\ ExtIdle

NextReplace == StartRun \/ ProcessFile \/ FinishCheck \/ ReplaceFile

SpecReplace == InitReplace /\ [][NextReplace]_vars

\* ------------------------------------------------------------------------
\* A run of the checker, each iteration of its loop followed stage by stage
\* ------------------------------------------------------------------------
\* what an iteration that did r leaves behind (lines 147-179): the same
\* assignments as in ProcessFile; answers is what get_latest_version answered
EndFile(r, answers) ==
    /\ cache' = r.cache
    /\ last' = [file |-> mod_files[idx], state |-> r.state,
                info |-> r.info, resolved |-> r.resolved,
                calls |-> r.calls, answers |-> answers]
    /\ verdicts' = IF r.state = "VERDICT_READY"
                   THEN Append(verdicts, r.info) ELSE verdicts
    /\ updates' = updates_append(updates, r)
    /\ outcomes' = Append(outcomes, [file |-> mod_files[idx],
                                      state |-> r.state, info |-> r.info])
    /\ idx' = next_index(idx, r, Len(mod_files))
    /\ events' = Append(events, Event("process", {mod_files[idx]}))
    /\ in_progress' = NoPackage

\* lines 148-152: the path is added to processed_files and
\* _get_mod_metadata returns
ExtractMetadata ==
    /\ cpc = "checking"
    /\ idx <= Len(mod_files)
    /\ in_progress.pc = "BOUNDARY"
    /\ \E m \in {get_mod_metadata_step(cache, force_update, mod_files[idx],
                                        disk[mod_files[idx]])} :
          /\ cache' = m[2]
          /\ in_progress' = [NoPackage EXCEPT !.pc = "METADATA_READY",
                                              !.metadata = m[1]]
    /\ processed_files' = processed_files \cup {mod_files[idx]}
    /\ UNCHANGED <<config, force_update, disk, saved, cpc, mod_files, idx,
                   updates, verdicts, last, runs, outcomes, events, valid_dirs,
                   exit_code>>
    /\ UNCHANGED verVars
    /\ UNCHANGED <<idsVars, pruneVars, cleanVars, downloadVars, providerVars,
                   loadVars, worldVars>>

\* lines 154-166: the file is skipped, or _get_project_ids returns
ResolveIdentity ==
    /\ cpc = "checking"
    /\ in_progress.pc = "METADATA_READY"
    /\ IF \/ ~Truthy(in_progress.metadata.mod_id)
          \/ in_progress.metadata.mod_id \in config.ignore_mods
       THEN /\ EndFile([state |-> "SKIPPED", info |-> NoInfo,
                        resolved |-> NoRecord, cache |-> cache,
                        calls |-> <<>>],
                       [p \in Providers |-> NoRecord])
            /\ UNCHANGED <<config, force_update, disk, saved, cpc, mod_files,
                           processed_files, runs, valid_dirs, exit_code>>
       ELSE /\ \E id_of \in
                   {f \in [Providers -> {None} \cup
                              {RemoteProject(p, in_progress.metadata.mod_id) :
                                   p \in Providers}] :
                       \A p \in Providers :
                           f[p] \in IdAnswers(p, in_progress.metadata.mod_id)} :
               \E ids \in {get_project_ids_step(cache, config, force_update,
                               in_progress.metadata.mod_id, id_of)} :
                  /\ cache' = ids.cache
                  /\ in_progress' = [in_progress EXCEPT
                                        !.pc = "IDS_RESOLVED",
                                        !.ids = ids.ids,
                                        !.calls = ids.calls]
            /\ UNCHANGED <<config, force_update, disk, saved, cpc, mod_files,
                           idx, processed_files, updates, verdicts, last, runs,
                           outcomes, events, valid_dirs, exit_code>>
    /\ UNCHANGED verVars
    /\ UNCHANGED <<idsVars, pruneVars, cleanVars, downloadVars, providerVars,
                   loadVars, worldVars>>

\* lines 168-179: _check_for_update returns or raises, and the iteration ends
CheckForUpdate ==
    /\ cpc = "checking"
    /\ in_progress.pc = "IDS_RESOLVED"
    /\ \E latest_of \in
           [Providers -> UNION {LatestAnswers(p,
                RemoteProject(p, in_progress.metadata.mod_id)) :
                    p \in Providers}] :
        \E r \in {process_ids(config, force_update, in_progress.metadata,
                              [ids |-> in_progress.ids, cache |-> cache,
                               calls |-> in_progress.calls],
                              latest_of)} :
           /\ \A p \in Providers :
                 latest_of[p] \in
                     IF p \in called(r.calls, "get_latest_version")
                     THEN LatestAnswers(p, RemoteProject(p,
                              in_progress.metadata.mod_id))
                     ELSE {NoRecord}
           /\ EndFile(r, latest_of)
    /\ UNCHANGED <<config, force_update, disk, saved, cpc, mod_files,
                   processed_files, runs, valid_dirs, exit_code>>
    /\ UNCHANGED verVars
    /\ UNCHANGED <<idsVars, pruneVars, cleanVars, downloadVars, providerVars,
                   loadVars, worldVars>>

\* the end of check_updates, reached when the loop is through
FinishStaged == in_progress.pc = "BOUNDARY" /\ FinishCheck

\* a process starts a run with no iteration under way; the process of an
\* aborted run has ended
StartStaged == in_progress.pc = "BOUNDARY" /\ StartRun

InitStaged == InitReplace

NextStaged ==
    \/ StartStaged \/ ExtractMetadata \/ ResolveIdentity \/ CheckForUpdate
    \/ FinishStaged \/ Interrupt

SpecStaged == InitStaged /\ [][NextStaged]_vars

\* ------------------------------------------------------------------------
\* Runs without --force that follow each other while the providers publish
\* a new release
\* ------------------------------------------------------------------------
\* the record that provider p answers for the project while version_number
\* is its latest release
ReleaseOf(p, mod_id, version_number) ==
    [provider |-> p, project_id |-> RemoteProject(p, mod_id),
     version_number |-> version_number]

\* cli.run without --force, on directories that exist
StartUnforced == StartRun /\ ~force_update' /\ valid_dirs'

\* one iteration of the loop while the providers are up: a search finds the
\* project and get_latest_version answers the latest release
ProcessFileNow ==
    /\ ProcessFile
    /\ \A p \in called(last'.calls, "get_project_id") :
          dict_get(cache_get_project_ids(cache',
                       metadata_used(mod_files[idx]).mod_id), p)
              = RemoteProject(p, metadata_used(mod_files[idx]).mod_id)
    /\ \A p \in called(last'.calls, "get_latest_version") :
          last'.answers[p]
              = ReleaseOf(p, metadata_used(mod_files[idx]).mod_id, release)

\* the providers publish a new release of the project
Publish ==
    /\ release = V10
    /\ release' = V11
    /\ UNCHANGED <<idsVars, pruneVars, cleanVars, downloadVars, providerVars,
                   loadVars, stageVars>>
    /\ UNCHANGED orchVars
    /\ UNCHANGED verVars

\* runs is counted up to MaxRuns only: the count starts again, so that one
\* run can follow another without end
CountAgain ==
    /\ cpc = "idle"
    /\ runs = MaxRuns
    /\ runs' = 0
    /\ UNCHANGED <<config, force_update, disk, saved, cache, cpc, mod_files,
                   idx, processed_files, updates, verdicts, last, outcomes,
                   events, valid_dirs, exit_code>>
    /\ UNCHANGED verVars
    /\ UNCHANGED extVars

\* a.jar is sodium 1.0 and stays; the providers have release 1.0
InitStale ==
    /\ config \in Configs
    /\ disk \in {d \in Disks : /\ "a.jar" \in DOMAIN d
                               /\ d["a.jar"] = [mod_id |-> Sodium,
                                                version |-> V10]}
    /\ OrchIdle
    /\ current_version = None
    /\ latest_version = None
    /\ VerIdle
    /\ IdsIdle /\ PruneIdle /\ CleanIdle
    /\ DownloadIdle /\ ProviderIdle /\ LoadIdle
    /\ StageIdle
    /\ release = V10

NextStale ==
    StartUnforced \/ ProcessFileNow \/ FinishCheck \/ Publish \/ CountAgain

\* the loop of check_updates is at a file
AtFile == cpc = "checking" /\ idx <= Len(mod_files)

\* the user runs the checker again and again, and check_updates goes through
\* its loop and returns: no step of it waits for anything but the providers'
\* answers.  The condition on ProcessFileNow is WF_vars(ProcessFileNow),
\* written with the states in which the step can be taken.
SpecStale ==
    /\ InitStale
    /\ [][NextStale]_vars
    /\ WF_vars(StartUnforced)
    /\ ([]<>(~AtFile) \/ []<><<ProcessFileNow>>_vars)
    /\ WF_vars(FinishCheck)
    /\ WF_vars(CountAgain)

\* ------------------------------------------------------------------------
\* Properties of the version comparison
\* ------------------------------------------------------------------------
\* the integers of a string of dot-separated integers
RECURSIVE DottedInts(_)
DottedInts(s) ==
    LET d == str_find(s, ".")
    IN IF d = -1 THEN <<int(s)>>
       ELSE <<int(slice(s, 1, d))>> \o DottedInts(slice(s, d + 2, Len(s)))

Compared(c, l) ==
    vpc = "compared" /\ current_version = c /\ latest_version = l

\* C1: for strings of dot-separated non-negative integers, has_update is true
\* exactly when latest's integer sequence is greater than current's under
\* sequence comparison; has_update("1.2.0","1.3.0") is true,
\* has_update("1.3.0","1.2.0") and has_update("1.0.0","1.0.0") are false.
C1_NumericOrder ==
    /\ vpc = "compared" =>
        /\ ~result.raised
        /\ result.value = list_lt(DottedInts(current_version),
                                  DottedInts(latest_version))
    /\ Compared(<<"1", ".", "2", ".", "0">>, <<"1", ".", "3", ".", "0">>)
        => result.value
    /\ Compared(<<"1", ".", "3", ".", "0">>, <<"1", ".", "2", ".", "0">>)
        => ~result.value
    /\ Compared(<<"1", ".", "0", ".", "0">>, <<"1", ".", "0", ".", "0">>)
        => ~result.value

C1_Witness ==
    /\ Compared(<<"1", ".", "2", ".", "0">>, <<"1", ".", "3", ".", "0">>)
    /\ result.value

HasTag(v) == v.prerelease # None

\* C2: when two versions have equal components, the one with a prerelease tag
\* sorts strictly below the one without, and two prerelease tags are ordered
\* by plain string comparison; has_update("1.0.0-alpha","1.0.0") is true and
\* has_update("1.0.0","1.0.0-alpha") is false.
C2_PrereleaseOrder ==
    /\ (vpc = "compared" /\ current # NoVersion /\ latest # NoVersion
            /\ current.components = latest.components) =>
        /\ ~result.raised
        /\ (HasTag(current) /\ ~HasTag(latest)) => result.value
        /\ (~HasTag(current) /\ HasTag(latest)) => ~result.value
        /\ (HasTag(current) /\ HasTag(latest)) =>
              result.value = str_lt(current.prerelease, latest.prerelease)
    /\ Compared(<<"1", ".", "0", ".", "0", "-", "a", "l", "p", "h", "a">>,
                <<"1", ".", "0", ".", "0">>) => result.value
    /\ Compared(<<"1", ".", "0", ".", "0">>,
                <<"1", ".", "0", ".", "0", "-", "a", "l", "p", "h", "a">>)
        => ~result.value

C2_Witness ==
    /\ Compared(<<"1", ".", "0", ".", "0", "-", "a", "l", "p", "h", "a">>,
                <<"1", ".", "0", ".", "0">>)
    /\ current.components = latest.components
    /\ HasTag(current) /\ ~HasTag(latest)
    /\ result.value

\* C3: has_update(x, x) is false for every valid version string x.
C3_NoUpdateToItself ==
    (vpc = "compared" /\ latest_version = current_version
        /\ IsStr(current_version) /\ is_valid_version(current_version)) =>
        (~result.raised /\ ~result.value)

C3_Witness ==
    /\ vpc = "compared" /\ latest_version = current_version
    /\ is_valid_version(current_version)
    /\ HasTag(current)
    /\ ~result.value

BothValid ==
    /\ IsStr(current_version) /\ is_valid_version(current_version)
    /\ IsStr(latest_version) /\ is_valid_version(latest_version)

\* C4: for valid version strings a and b, if has_update(a, b) is true then
\* has_update(b, a) is false.
C4_Antisymmetric ==
    (vpc = "compared" /\ BothValid /\ result.value) =>
        ~compare_versions(latest_version, current_version).value

C4_Witness ==
    /\ vpc = "compared" /\ BothValid /\ result.value
    /\ current.components = latest.components
    /\ HasTag(current) /\ HasTag(latest)

\* C5: normalize is idempotent: normalize(normalize(s)) = normalize(s) for
\* every string s.
C5_NormalizeIdempotent ==
    vpc = "renormalized" => renormalized = current.normalized

\* C6: component sequences are ordered as tuples, never zero-padded: when one
\* version's components are a strict prefix of the other's the shorter one
\* sorts first, and has_update("1.2","1.2.0") is true.
IsStrictPrefix(a, b) == Len(a) < Len(b) /\ a = SubSeq(b, 1, Len(a))

C6_ShorterSortsFirst ==
    /\ vpc = "compared" =>
        /\ IsStrictPrefix(current.components, latest.components)
              => result.value
        /\ IsStrictPrefix(latest.components, current.components)
              => ~result.value
    /\ Compared(<<"1", ".", "2">>, <<"1", ".", "2", ".", "0">>) =>
        /\ current.components = <<1, 2>>
        /\ latest.components = <<1, 2, 0>>
        /\ result.value

C6_Witness ==
    /\ Compared(<<"1", ".", "2">>, <<"1", ".", "2", ".", "0">>)
    /\ IsStrictPrefix(current.components, latest.components)
    /\ result.value

\* s without its "+build" suffix: a "+" followed by one or more letters,
\* digits, dots and dashes up to the end of s
WithoutBuild(s) ==
    LET I == {i \in 1..(Len(s) - 1) :
                 s[i] = "+" /\ \A j \in (i + 1)..Len(s) : s[j] \in TagChar}
    IN IF I = {} THEN s ELSE slice(s, 1, Min(I) - 1)

\* C7: the build tag never takes part in ordering: has_update is false, in
\* both directions, for two version strings that differ only in their
\* "+build" suffix.
C7_BuildIgnored ==
    (vpc = "compared" /\ IsStr(current_version) /\ IsStr(latest_version)
        /\ WithoutBuild(current_version) = WithoutBuild(latest_version)) =>
        ~result.value

\* C8: has_update never raises: whatever the two inputs, a failure to build
\* the Version values ends in the fallback comparison and a boolean.
C8_NeverRaises == vpc = "compared" => ~result.raised

\* the text before the first "-" or "+"
NumericSegment(s) ==
    LET I == {i \in 1..Len(s) : s[i] \in {"-", "+"}}
    IN IF I = {} THEN s ELSE slice(s, 1, Min(I) - 1)

HasDigit(s) == \E i \in 1..Len(s) : s[i] \in Digit

\* C9: every Version has a non-empty sequence of non-negative integers as
\* components, and the components are [0] when the numeric segment of the
\* normalized string has no digit.
C9_ComponentsNonEmpty ==
    \A v \in {current, latest} : v # NoVersion =>
        /\ v.components # <<>>
        /\ \A i \in 1..Len(v.components) : v.components[i] \in Nat
        /\ ~HasDigit(NumericSegment(v.normalized)) => v.components = <<0>>

C9_Witness ==
    /\ vpc = "compared"
    /\ HasDigit(current.normalized)
    /\ ~HasDigit(NumericSegment(current.normalized))
    /\ current.components = <<0>>

\* ------------------------------------------------------------------------
\* Properties of the update orchestration
\* ------------------------------------------------------------------------
\* the cache c holds a project id of provider p for mod_id and a version
\* record under that id for the configured game version and loader
HasCachedRecord(c, mod_id, p) ==
    /\ mod_id \in DOMAIN c.project_ids
    /\ Truthy(dict_get(c.project_ids[mod_id], p))
    /\ cache_get_version_info(c, p, c.project_ids[mod_id][p],
                              config.minecraft_version, config.mod_loader)
           # NoRecord

CachedRecord(c, mod_id, p) ==
    cache_get_version_info(c, p, c.project_ids[mod_id][p],
                           config.minecraft_version, config.mod_loader)

\* C10: when the primary provider has a cached version record for the
\* package and the fallback has none, a non-forced check makes no live
\* provider call for that package (neither get_project_id nor
\* get_latest_version) and the cached primary record is the resolved record
\* and the record of the verdict.
C10_CachedPrimaryNoLiveCall ==
    [][(/\ cpc = "checking" /\ idx <= Len(mod_files) /\ idx' = idx + 1
        /\ ~force_update
        /\ HasCachedRecord(cache, metadata_used(mod_files[idx]).mod_id,
                           config.default_mod_provider)
        /\ ~HasCachedRecord(cache, metadata_used(mod_files[idx]).mod_id,
                            config.fallback_mod_provider))
       => LET meta == metadata_used(mod_files[idx])
              rec == CachedRecord(cache, meta.mod_id, config.default_mod_provider)
          IN /\ last'.calls = <<>>
             /\ (last'.state # "SKIPPED" /\ Truthy(meta.version))
                    => last'.resolved = rec
             /\ last'.state = "VERDICT_READY" =>
                    /\ last'.info.version_info = rec
                    /\ last'.info.latest_version = rec.version_number]_vars

\* a verdict made from the cached primary record, without any call, while
\* the fallback provider is configured and its project id is not in the cache
C10_Witness ==
    /\ cpc = "checking"
    /\ ~force_update
    /\ last.state = "VERDICT_READY"
    /\ last.calls = <<>>
    /\ HasCachedRecord(cache, last.info.mod_id, config.default_mod_provider)
    /\ ~HasCachedRecord(cache, last.info.mod_id, config.fallback_mod_provider)
    /\ config.fallback_mod_provider \in providers_of(config)
    /\ config.fallback_mod_provider \notin DOMAIN cache.project_ids[last.info.mod_id]
    /\ last.info.version_info =
           CachedRecord(cache, last.info.mod_id, config.default_mod_provider)

\* ------------------------------------------------------------------------
\* Properties of a check pass
\* ------------------------------------------------------------------------
\* the update_info of the iterations that ended in VERDICT_READY, in order
InfosOf(os) == [i \in 1..Len(os) |-> os[i].info]
ReadyOutcomes == SelectSeq(outcomes, LAMBDA o : o.state = "VERDICT_READY")

\* C11: a package whose mod id is on the ignore list never reaches
\* VERDICT_READY: its iteration ends SKIPPED without any provider call, and
\* neither the verdicts nor the returned list hold an entry for it, whatever
\* the cache holds for it and whatever the providers would answer.
C11_IgnoredNeverVerdict ==
    /\ \A i \in 1..Len(outcomes) :
          disk[outcomes[i].file].mod_id \in config.ignore_mods
              => outcomes[i].state = "SKIPPED"
    /\ (last.file # "" /\ disk[last.file].mod_id \in config.ignore_mods)
           => last.calls = <<>> /\ last.resolved = NoRecord
    /\ \A i \in 1..Len(verdicts) : verdicts[i].mod_id \notin config.ignore_mods
    /\ \A i \in 1..Len(updates) : updates[i].mod_id \notin config.ignore_mods

\* an ignored package was skipped although the cache holds its project id
\* and a version record that differs from the installed version
C11_Witness ==
    /\ last.file # ""
    /\ disk[last.file].mod_id \in config.ignore_mods
    /\ last.state = "SKIPPED"
    /\ HasCachedRecord(cache, disk[last.file].mod_id, "modrinth")
    /\ CachedRecord(cache, disk[last.file].mod_id, "modrinth").version_number
           # disk[last.file].version

\* C12 as stated: check_updates returns exactly the verdicts of the packages
\* that reached VERDICT_READY in this pass, one per such package whatever its
\* update-available flag, in discovery order.
C12_ReturnsAllVerdicts ==
    (cpc = "idle" /\ exit_code = 0) => updates = InfosOf(ReadyOutcomes)

\* C12 amended: check_updates returns exactly the verdicts of the packages
\* that reached VERDICT_READY in this pass with the update-available flag
\* true, one per such package, in discovery order (the order of mod_files).
C12_ReturnsUpdatesInOrder ==
    /\ Len(outcomes) = idx - 1
    /\ \A i \in 1..Len(outcomes) : outcomes[i].file = mod_files[i]
    /\ updates = InfosOf(SelectSeq(ReadyOutcomes,
                                   LAMBDA o : o.info.update_available))
    /\ verdicts = InfosOf(ReadyOutcomes)

\* a pass returned: one package with an update and one that is up to date
\* reached VERDICT_READY, and only the first is in the list
C12_Witness ==
    /\ cpc = "idle" /\ exit_code = 0
    /\ Len(ReadyOutcomes) = 2
    /\ Len(updates) = 1
    /\ \E i \in 1..Len(outcomes) :
          outcomes[i].state = "VERDICT_READY" /\ ~outcomes[i].info.update_available

\* C20: the run ends with a failure exit code if and only if the
\* configuration yields zero usable scan directories.
C20_FailureIffNoDirs ==
    (cpc = "idle" /\ runs > 0) => (exit_code # 0 <=> ~valid_dirs)

\* ------------------------------------------------------------------------
\* Properties of the cache
\* ------------------------------------------------------------------------
\* C13: storing project ids is a merge: after any sequence of
\* set_project_ids calls and identity resolutions, the id stored for a mod
\* and a provider is the last value other than None handed over for it, and
\* handing over None (a lookup that found nothing included) leaves the
\* stored id as it was.
C13_ProjectIdsMerge ==
    /\ \A mod_id \in Mods, p \in Providers :
          StoredId(cache, mod_id, p) = supplied[mod_id][p]
    /\ \A p \in Providers :
          (ids_op.op # "" /\ ids_op.ids[p] = None)
              => StoredId(cache, ids_op.mod_id, p) = dict_get(ids_op.before, p)

\* set_project_ids("sodium", curseforge_id="BBB") after modrinth "AAA" was
\* stored: both ids are stored
C13_Witness ==
    /\ ids_op.op = "set_project_ids"
    /\ ids_op.mod_id = Sodium
    /\ ids_op.ids = [p \in Providers |-> IF p = "modrinth" THEN None ELSE <<"BBB">>]
    /\ ids_op.before = Put(EmptyDict, "modrinth", <<"AAA">>)
    /\ cache.project_ids[Sodium] =
           [p \in Providers |-> IF p = "modrinth" THEN <<"AAA">> ELSE <<"BBB">>]

\* C14: get_project_ids(mod_id) returns a map that has every known provider,
\* each mapped to None, whenever the cache holds no project id for mod_id, in
\* every reachable state of the cache.
C14_ZeroValueMap ==
    \A mod_id \in Mods :
        (\A p \in Providers : StoredId(cache, mod_id, p) = None)
            => cache_get_project_ids(cache, mod_id) = [p \in Providers |-> None]

\* whether a date_published value is a date, and its age in days at now
IsDate(d) == d \notin {NoDate, EmptyDate, NotADate}
AgeDays(d, now) == now - d.day

\* C15: prune_old_versions(max_age_days) removes every version record whose
\* publish date is older than max_age_days, keeps every record whose date is
\* within the range and every record whose date is absent or no date, for
\* every notation of the date (with Z and with a UTC offset included), and
\* returns the number of records removed.
C15_PruneByAge ==
    prune_op # NoPruneOp =>
        /\ \A k \in DOMAIN prune_op.before :
              LET d == prune_op.before[k].date_published
              IN IF IsDate(d) /\ AgeDays(d, prune_op.now) > prune_op.max_age_days
                 THEN k \notin DOMAIN cache.latest_versions
                 ELSE /\ k \in DOMAIN cache.latest_versions
                      /\ cache.latest_versions[k] = prune_op.before[k]
        /\ DOMAIN cache.latest_versions \subseteq DOMAIN prune_op.before
        /\ prune_op.pruned_count =
               Cardinality(DOMAIN prune_op.before)
                   - Cardinality(DOMAIN cache.latest_versions)

\* C16: after clean_up(S), for any set S of files (the empty set included),
\* every mod file entry left in the cache belongs to a file of S, every
\* entry of a file of S is kept, and the project ids, the version records
\* and the download records are unchanged.
C16_CleanUpKeepsOnlySeen ==
    clean_op.called =>
        /\ DOMAIN cache.mod_files =
               (DOMAIN clean_op.before.mod_files) \cap clean_op.processed_files
        /\ \A f \in DOMAIN cache.mod_files :
               cache.mod_files[f] = clean_op.before.mod_files[f]
        /\ cache.project_ids = clean_op.before.project_ids
        /\ cache.latest_versions = clean_op.before.latest_versions
        /\ cache.downloaded_files = clean_op.before.downloaded_files


\* the elements of s at the indexes in I, in the order of s
AtIndexes(s, I) ==
    LET ks == SelectSeq([j \in 1..Len(s) |-> j], LAMBDA j : j \in I)
    IN [k \in 1..Len(ks) |-> s[ks[k]]]

\* the updates that download_mod was invoked for and answered True
DownloadSucceeded ==
    {d.index : d \in {e \in Range(download_op.downloads) : e.success}}

\* the updates whose provider is one of self.providers
ProviderAvailable ==
    {i \in DOMAIN download_op.updates :
        download_op.updates[i].provider \in download_op.providers}

\* C17: download_updates returns, in input order, exactly the verdicts whose
\* download succeeded; in a dry run every verdict whose provider is available
\* is recorded, no provider download is invoked and no download directory is
\* created; a verdict whose download returned false or whose provider is
\* unavailable is never in the result.
C17_DownloadedInOrder ==
    download_op.pc = "done" =>
        /\ download_op.returned =
               AtIndexes(download_op.updates,
                         IF download_op.dry_run THEN ProviderAvailable
                         ELSE DownloadSucceeded)
        /\ download_op.dry_run =>
               /\ download_op.downloads = <<>>
               /\ ~download_op.made
        /\ DownloadSucceeded \subseteq ProviderAvailable
        /\ \A d \in Range(download_op.downloads) :
               d.index \in ProviderAvailable

\* a real run of three updates: one downloaded, one whose download failed
\* and one whose provider is unavailable
C17_Witness ==
    /\ download_op.pc = "done"
    /\ ~download_op.dry_run
    /\ Len(download_op.updates) = 3
    /\ Len(download_op.returned) = 1
    /\ ProviderAvailable # DOMAIN download_op.updates
    /\ \E d \in Range(download_op.downloads) : ~d.success

\* C19: loading the cache is never fatal: whenever the cache file is
\* unreadable or cannot be parsed into a cache (invalid JSON, or JSON that is
\* not a cache object), load returns an empty cache, the corrupt file is
\* preserved as a backup, and no exception escapes.
C19_LoadNeverFatal ==
    (load_op.called
       /\ load_op.file.kind \in {"unreadable", "invalid_json", "not_text",
                                  "not_object"}) =>
        /\ ~load_op.result.raised
        /\ exit_code # 1
        /\ cache = EmptyCache
        /\ load_op.result.backup

\* an item of a response that cannot give the answer: it is not an object,
\* or it lacks the id, the version number or the display name
Unusable(item, op, p) ==
    \/ ~item.is_dict
    \/ op = "get_project_id" /\ item.id = None
    \/ op = "get_latest_version" /\ p = "modrinth"
         /\ item.version_number = None
    \/ op = "get_latest_version" /\ p = "curseforge"
         /\ item.displayName \in {None, <<>>}

\* the response of a lookup is malformed: it is not JSON, not the object
\* that is read, or none of its items can give the answer
Malformed ==
    /\ provider_op.op # "download_mod"
    /\ \/ provider_op.body.kind \in {"not_json", "not_object"}
       \/ /\ provider_op.body.kind = "object"
          /\ provider_op.body.items # <<>>
          /\ \A k \in DOMAIN provider_op.body.items :
                Unusable(provider_op.body.items[k], provider_op.op,
                         provider_op.provider)

\* C18: no provider operation lets an exception cross the contract
\* boundary: when its request fails on every retry, or the response is
\* malformed, get_project_id and get_latest_version return None and
\* download_mod returns False.
C18_FailureIsAbsent ==
    provider_op.pc = "done" =>
        /\ ~provider_op.result.raised
        /\ (provider_op.exhausted \/ Malformed) =>
              /\ provider_op.result.id = None
              /\ provider_op.result.info = NoRecord
              /\ ~provider_op.result.ok

\* ------------------------------------------------------------------------
\* Properties of the resolution of identities and versions
\* ------------------------------------------------------------------------
\* the providers that a list of calls asks op of, in the order of the calls
AskedInOrder(calls, op) ==
    [i \in 1..Len(SelectSeq(calls, LAMBDA c : c[1] = op)) |->
        SelectSeq(calls, LAMBDA c : c[1] = op)[i][2]]

\* primary, then fallback
Preference == <<config.default_mod_provider, config.fallback_mod_provider>>

\* the configured providers for which cache c holds no project id of mod_id,
\* primary before fallback
AbsentProviders(c, mod_id) ==
    SelectSeq(Preference,
              LAMBDA p : /\ p \in providers_of(config)
                         /\ ~Truthy(dict_get(cache_get_project_ids(c, mod_id), p)))

\* this step is an iteration of the loop of check_updates
IsProcessFile == cpc = "checking" /\ idx <= Len(mod_files) /\ idx' = idx + 1

\* C21: in a non-forced check, in every reachable cache state,
\* get_project_id is asked of each configured provider whose project id is
\* absent from the cache for the package's mod id, primary before fallback,
\* and of no provider whose id is cached.
C21_QueriesAbsentProviders ==
    [][(IsProcessFile /\ ~force_update /\ last'.state # "SKIPPED")
       => AskedInOrder(last'.calls, "get_project_id")
              = AbsentProviders(cache, metadata_used(mod_files[idx]).mod_id)]_vars

\* the configured providers, primary before fallback
ConfiguredProviders ==
    SelectSeq(Preference, LAMBDA p : p \in providers_of(config))

\* C22: when force-refresh is requested, get_project_id is asked of every
\* configured provider for every package that is not skipped, including the
\* providers whose project id is already in the cache.
C22_ForceQueriesAll ==
    [][(IsProcessFile /\ force_update /\ last'.state # "SKIPPED")
       => AskedInOrder(last'.calls, "get_project_id") = ConfiguredProviders]_vars

\* cache c holds no version record of provider p under any project id that
\* p has or can be given for mod_id
NoRecordOf(c, mod_id, p) ==
    \A pid \in {RemoteProject(p, mod_id)}
               \cup {x \in {dict_get(cache_get_project_ids(c, mod_id), p)} :
                        Truthy(x)} :
        cache_get_version_info(c, p, pid, config.minecraft_version,
                               config.mod_loader) = NoRecord

\* C23: in a non-forced check where the primary provider has no cached
\* version record for the package but the fallback has one, the cached
\* fallback record is the resolved version and no live get_latest_version
\* call is made to any provider, even when the primary's project id is known.
C23_CachedFallbackNoLiveCall ==
    [][(/\ IsProcessFile /\ ~force_update
        /\ last'.state # "SKIPPED"
        /\ Truthy(metadata_used(mod_files[idx]).version)
        /\ NoRecordOf(cache, metadata_used(mod_files[idx]).mod_id,
                      config.default_mod_provider)
        /\ HasCachedRecord(cache, metadata_used(mod_files[idx]).mod_id,
                           config.fallback_mod_provider))
       => /\ called(last'.calls, "get_latest_version") = {}
          /\ last'.resolved =
                 CachedRecord(cache, metadata_used(mod_files[idx]).mod_id,
                              config.fallback_mod_provider)
          /\ cache'.latest_versions = cache.latest_versions]_vars

\* a verdict made from the cached record of the fallback provider, without a
\* live get_latest_version call, while the primary's project id is known and
\* the primary is configured
C23_Witness ==
    /\ cpc = "checking"
    /\ ~force_update
    /\ last.state = "VERDICT_READY"
    /\ called(last.calls, "get_latest_version") = {}
    /\ config.default_mod_provider \in providers_of(config)
    /\ Truthy(dict_get(cache_get_project_ids(cache, last.info.mod_id),
                       config.default_mod_provider))
    /\ NoRecordOf(cache, last.info.mod_id, config.default_mod_provider)
    /\ HasCachedRecord(cache, last.info.mod_id, config.fallback_mod_provider)
    /\ last.resolved = CachedRecord(cache, last.info.mod_id,
                                    config.fallback_mod_provider)
    /\ last.info.provider = config.fallback_mod_provider

\* the project id that cache c holds for mod_id and provider p
IdIn(c, mod_id, p) == dict_get(cache_get_project_ids(c, mod_id), p)

\* the configured providers with a project id for mod_id in cache c, primary
\* before fallback
ResolvedProviders(c, mod_id) ==
    SelectSeq(Preference, LAMBDA p : /\ p \in providers_of(config)
                                     /\ Truthy(IdIn(c, mod_id, p)))

\* a version record of cache c stands under a project id that cache d
\* holds for mod_id
CachedUnder(c, d, mod_id) ==
    \E p \in Providers :
        /\ Truthy(IdIn(d, mod_id, p))
        /\ cache_get_version_info(c, p, IdIn(d, mod_id, p),
               config.minecraft_version, config.mod_loader) # NoRecord

\* the record that is preferred among the answers a
PreferredAnswer(a) ==
    IF a[config.default_mod_provider] # NoRecord
    THEN a[config.default_mod_provider]
    ELSE a[config.fallback_mod_provider]

\* C25: when no cached version record is used, get_latest_version is called
\* live in primary-then-fallback order, only on providers that are
\* configured and have a resolved project id; when both return a record the
\* primary's is the resolved version, when only one does that one is, and
\* when none does the package resolves no version.
C25_LiveInPreferenceOrder ==
    [][(/\ IsProcessFile
        /\ last'.state # "SKIPPED"
        /\ Truthy(metadata_used(mod_files[idx]).version)
        /\ (force_update
              \/ ~CachedUnder(cache, cache', metadata_used(mod_files[idx]).mod_id)))
       => /\ AskedInOrder(last'.calls, "get_latest_version")
                 = ResolvedProviders(cache', metadata_used(mod_files[idx]).mod_id)
          /\ last'.resolved = PreferredAnswer(last'.answers)
          /\ (\A p \in Providers : last'.answers[p] = NoRecord)
                 => last'.state = "ABANDONED"]_vars

\* both providers were asked live, in order, both returned a record, with
\* different version numbers, and the primary's is the resolved one
C25_Witness ==
    /\ cpc = "checking"
    /\ AskedInOrder(last.calls, "get_latest_version") = Preference
    /\ \A p \in Providers : last.answers[p] # NoRecord
    /\ last.answers["modrinth"].version_number
           # last.answers["curseforge"].version_number
    /\ last.state = "VERDICT_READY"
    /\ last.resolved = last.answers[config.default_mod_provider]

\* 4-tuples (provider, project_id, game_version, loader) to look up: the
\* ones of the run and ones that differ from them in one part or more
LookupTuples ==
    Providers
        \X {<<"AAA">>, <<"BBB">>}
        \X {<<"1.20.1">>, <<"1.20">>, <<"1.20.1", ":", "fabric">>}
        \X {"fabric", "forge"}

\* the 4-tuple under which the answer of provider p is stored, given the
\* project ids of cache c
TupleOf(c, mod_id, p) ==
    <<p, IdIn(c, mod_id, p), config.minecraft_version, config.mod_loader>>

Lookup(c, t) == cache_get_version_info(c, t[1], t[2], t[3], t[4])

\* the providers that returned a record in the step that led to last
Answered(l) ==
    {p \in called(l.calls, "get_latest_version") : l.answers[p] # NoRecord}

\* C26: every record returned by a live get_latest_version call is stored
\* under the key (provider, project_id, game_version, loader): a following
\* get_version_info with the same 4-tuple returns it, a lookup that differs
\* in any of the four parts is not changed by it; a live call that returns
\* None leaves the version cache unchanged.
C26_LiveRecordsCached ==
    [][IsProcessFile
       => /\ \A p \in Answered(last') :
                Lookup(cache', TupleOf(cache', metadata_used(mod_files[idx]).mod_id, p))
                    = last'.answers[p]
          /\ \A t \in LookupTuples :
                (\A p \in Answered(last') :
                    t # TupleOf(cache', metadata_used(mod_files[idx]).mod_id, p))
                => Lookup(cache', t) = Lookup(cache, t)
          /\ Answered(last') = {}
                => cache'.latest_versions = cache.latest_versions]_vars

\* both providers were asked live; the primary returned None and has no
\* record in the cache, the fallback's record is in the cache under its key
\* and under no key that differs in one part
C26_Witness ==
    /\ cpc = "checking"
    /\ last.state = "VERDICT_READY"
    /\ called(last.calls, "get_latest_version") = Providers
    /\ Answered(last) = {config.fallback_mod_provider}
    /\ Lookup(cache, TupleOf(cache, last.info.mod_id,
                             config.fallback_mod_provider))
           = last.answers[config.fallback_mod_provider]
    /\ Lookup(cache, TupleOf(cache, last.info.mod_id,
                             config.default_mod_provider)) = NoRecord
    /\ \A t \in LookupTuples :
          t # TupleOf(cache, last.info.mod_id, config.fallback_mod_provider)
              => Lookup(cache, t) = NoRecord

\* ------------------------------------------------------------------------
\* Properties of the verdict and of the end of a pass
\* ------------------------------------------------------------------------
\* C27: a package yields no verdict when no version record was resolved or
\* the resolved record has no version number; otherwise it yields a verdict
\* whose update_available is compare_versions(current version, the record's
\* version number) and whose latest version, version_info and provider are
\* those of the resolved record.
C27_VerdictFromResolvedRecord ==
    last.file # "" =>
        IF last.resolved = NoRecord \/ ~Truthy(last.resolved.version_number)
        THEN last.state # "VERDICT_READY" /\ last.info = NoInfo
        ELSE /\ last.state = "VERDICT_READY"
             /\ compare_versions(last.info.current_version,
                                 last.resolved.version_number)
                    = Returned(last.info.update_available)
             /\ last.info.latest_version = last.resolved.version_number
             /\ last.info.version_info = last.resolved
             /\ last.info.provider = last.resolved.provider

\* check_updates went through its loop and returned
PassReturned ==
    cpc = "idle" /\ runs > 0 /\ exit_code = 0 /\ mod_files # <<>>

\* C28: in a pass that found mod files, cache.clean_up is called exactly
\* once, after the last file was processed, with the set of all files found
\* in this run, and cache.save is called exactly once, after that call.
C28_CleanUpThenSaveOnce ==
    /\ cpc = "checking" =>
          \A i \in 1..Len(events) : events[i].op = "process"
    /\ PassReturned =>
          /\ events = [i \in 1..Len(mod_files) |->
                          Event("process", {mod_files[i]})]
                      \o <<Event("clean_up", Range(mod_files)),
                           Event("save", {})>>
          /\ saved = cache

\* a pass over two files returned: the first file raised an error, the second
\* was skipped, and clean_up was called with both
C28_Witness ==
    /\ PassReturned
    /\ Len(outcomes) = 2
    /\ outcomes[1].state = "ERROR"
    /\ outcomes[2].state = "SKIPPED"
    /\ events[3] = Event("clean_up", Files)
    /\ events[4].op = "save"

\* the positions of the iterations of this pass that raised an error
Failed == {i \in 1..Len(outcomes) : outcomes[i].state = "ERROR"}

\* C29: an error raised while one file is processed ends only that
\* iteration: the pass goes on with the file after it, every file found is
\* processed, and clean_up and save are still called at the end of the pass.
C29_ErrorEndsOnlyPackage ==
    Failed # {} =>
        /\ \A i \in 1..Len(outcomes) : outcomes[i].file = mod_files[i]
        /\ cpc = "checking" => idx = Len(outcomes) + 1
        /\ PassReturned =>
              /\ Len(outcomes) = Len(mod_files)
              /\ Len(events) = Len(mod_files) + 2
              /\ events[Len(events) - 1].op = "clean_up"
              /\ events[Len(events)].op = "save"

\* the first of two files raised an error, the second got its verdict, and
\* the pass ended with clean_up and save
C29_Witness ==
    /\ PassReturned
    /\ Failed = {1}
    /\ Len(outcomes) = 2
    /\ outcomes[2].state = "VERDICT_READY"
    /\ events[Len(events)].op = "save"
    /\ saved = cache

\* ------------------------------------------------------------------------
\* Properties of the metadata of the mod files
\* ------------------------------------------------------------------------
\* C30: the current version of a verdict is the version that the file at
\* that path declares in this run, also when the file at a cached path was
\* replaced by another mod file between two runs.
C30_CurrentVersionOfFileOnDisk ==
    cpc = "checking" =>
        \A i \in 1..Len(outcomes) :
            outcomes[i].state = "VERDICT_READY"
                => outcomes[i].info.current_version
                       = disk[outcomes[i].file].version

\* ------------------------------------------------------------------------
\* Properties of runs that follow each other
\* ------------------------------------------------------------------------
\* the cache file holds a version record of sodium that is not the
\* providers' latest release
StaleRecordSaved ==
    \E p \in Providers :
        /\ Lookup(saved, TupleOf(saved, Sodium, p)) # NoRecord
        /\ Lookup(saved, TupleOf(saved, Sodium, p)).version_number # release

\* a run returned a verdict for sodium with the providers' latest release
FreshVerdict ==
    \E i \in 1..Len(verdicts) :
        /\ verdicts[i].mod_id = Sodium
        /\ verdicts[i].latest_version = release

\* C24: when the providers' latest release changed after a version record
\* was cached, a later run without --force over the unchanged mod file asks
\* a provider again and returns a verdict with the new latest version.
C24_StaleRecordReplaced == StaleRecordSaved ~> FreshVerdict

\* ------------------------------------------------------------------------
\* Properties of forced runs and of skipped files
\* ------------------------------------------------------------------------
\* C31: with --force the record that _get_latest_version returns is the
\* answer of a get_latest_version call made in this iteration, never a cached
\* record; when every call answers None (or none is made) the file gets no
\* verdict and the cached version records stay as they were.
C31_ForcedRecordIsLive ==
    [][IsProcessFile /\ force_update
       => /\ last'.resolved # NoRecord
              => \E p \in Answered(last') : last'.resolved = last'.answers[p]
          /\ Answered(last') = {}
              => /\ last'.resolved = NoRecord
                 /\ last'.state # "VERDICT_READY"
                 /\ cache'.latest_versions = cache.latest_versions]_vars

\* a forced run whose cache file holds release 1.1 for sodium: Modrinth was
\* asked, answered 1.0, and the verdict carries 1.0
C31_Witness ==
    /\ cpc = "checking"
    /\ force_update
    /\ Lookup(saved, TupleOf(saved, Sodium, "modrinth")) # NoRecord
    /\ Lookup(saved, TupleOf(saved, Sodium, "modrinth")).version_number = V11
    /\ last.state = "VERDICT_READY"
    /\ last.info.mod_id = Sodium
    /\ last.info.provider = "modrinth"
    /\ last.info.latest_version = V10
    /\ "modrinth" \in Answered(last)

\* check_updates leaves its loop and returns
IsFinishCheck == cpc = "checking" /\ cpc' = "idle" /\ exit_code' = 0

\* the files of this pass that were skipped
SkippedFiles ==
    {outcomes[i].file : i \in {j \in 1..Len(outcomes) :
                                   outcomes[j].state = "SKIPPED"}}

\* C32: a file that is skipped (no mod id, or a mod id of ignore_mods) causes
\* no provider call, adds nothing to the updates to download, leaves the
\* project ids and the version records of the cache unchanged, and its
\* metadata entry is in the cache and in the cache file after the clean_up
\* of the pass.
C32_SkippedLeavesCaches ==
    [][/\ IsProcessFile /\ last'.state = "SKIPPED"
           => /\ last'.calls = <<>>
              /\ updates' = updates
              /\ cache'.project_ids = cache.project_ids
              /\ cache'.latest_versions = cache.latest_versions
              /\ mod_files[idx] \in DOMAIN cache'.mod_files
       /\ IsFinishCheck
           => /\ SkippedFiles \subseteq DOMAIN cache'.mod_files
              /\ SkippedFiles \subseteq DOMAIN saved'.mod_files]_vars

\* a pass over an ignored mod and a file without mod id returned: both were
\* skipped and both have their metadata entry in the cache file
C32_Witness ==
    /\ PassReturned
    /\ Len(outcomes) = 2
    /\ SkippedFiles = Files
    /\ \E f \in Files : disk[f].mod_id = Optifine
    /\ \E f \in Files : disk[f].mod_id = None
    /\ DOMAIN saved.mod_files = Files

\* ------------------------------------------------------------------------
\* Properties of the providers' lookups
\* ------------------------------------------------------------------------
\* get_latest_version of provider p returned after a response arrived
LatestDone(p) ==
    /\ provider_op.pc = "done"
    /\ provider_op.op = "get_latest_version"
    /\ provider_op.provider = p
    /\ provider_op.body.kind = "object"

\* the date of a release of provider p
DateOf(p, item) ==
    IF p = "modrinth" THEN item.date_published ELSE item.fileDate

\* the releases of the response that pass the filter of provider p
Passing(p, items) ==
    {k \in DOMAIN items : IF p = "modrinth" THEN modrinth_filter(items[k])
                          ELSE curseforge_filter(items[k])}

\* C33: when releases of the response pass the compatibility filter,
\* get_latest_version of each provider returns the one with the most recent
\* date, whatever the order of the response.
C33_MostRecentRelease ==
    \A p \in Providers :
        LatestDone(p) /\ Passing(p, provider_op.body.items) # {} =>
            /\ provider_op.result.info # NoRecord
            /\ \E k \in Passing(p, provider_op.body.items) :
                  /\ \A j \in Passing(p, provider_op.body.items) :
                        date_key(DateOf(p, provider_op.body.items[j]))
                            <= date_key(DateOf(p, provider_op.body.items[k]))
                  /\ provider_op.result.info.version_number
                         = version_at(DateOf(p, provider_op.body.items[k]))

\* a release of provider p is for the requested game version and loader and
\* is not flagged unavailable or server pack (Modrinth has no such flags)
Satisfies(p, item) ==
    IF p = "modrinth"
    THEN in_holds(item.game_versions) /\ in_holds(item.loaders)
    ELSE /\ in_holds(item.gameVersions)
         /\ in_holds(item.loaders)
         /\ item.isAvailable
         /\ ~item.isServerPack

\* C34: get_latest_version of each provider returns only a release whose
\* game versions contain the requested one, whose loaders contain the
\* requested one and that is neither unavailable nor a server pack, and
\* returns None when no release of the response is such a release.
C34_OnlyCompatibleRelease ==
    \A p \in Providers :
        LatestDone(p) =>
            /\ provider_op.result.info # NoRecord
                  => \E k \in DOMAIN provider_op.body.items :
                        /\ Satisfies(p, provider_op.body.items[k])
                        /\ provider_op.result.info.version_number
                               = version_at(DateOf(p, provider_op.body.items[k]))
            /\ (\A k \in DOMAIN provider_op.body.items :
                    ~Satisfies(p, provider_op.body.items[k]))
                  => provider_op.result.info = NoRecord

\* the hits whose slug or name is mod_id when case is ignored
ExactHits(hits, mod_id) ==
    {k \in DOMAIN hits : \/ str_lower(hits[k].slug) = str_lower(mod_id)
                         \/ str_lower(hits[k].name) = str_lower(mod_id)}

\* C35: get_project_id returns the id of a hit whose slug or title is the
\* mod id, case ignored, whenever the response has such a hit; it returns
\* the id of the first hit only when no hit is such a hit, and None when
\* there are no hits.
C35_ExactHitPreferred ==
    \A p \in Providers :
        /\ provider_op.pc = "done"
        /\ provider_op.op = "get_project_id"
        /\ provider_op.provider = p
        /\ provider_op.body.kind = "object"
        => /\ ExactHits(provider_op.body.items, ModId) # {}
               => \E k \in ExactHits(provider_op.body.items, ModId) :
                     provider_op.result.id
                         = returned_id(p, provider_op.body.items[k].id)
           /\ ExactHits(provider_op.body.items, ModId) = {}
                  /\ provider_op.body.items # <<>>
               => provider_op.result.id
                      = returned_id(p, provider_op.body.items[1].id)
           /\ provider_op.body.items = <<>> => provider_op.result.id = None

\* the waits of a request of which n attempts failed and another followed
Backoff(n) == [i \in 1..n |-> retry_delay * (2 ^ (i - 1))]

\* C36: a request makes at most max_retries attempts; it sleeps
\* retry_delay * 2^attempt seconds (1, then 2) after a failed attempt that is
\* followed by another one and at no other time; a response ends it at once,
\* and after the last failed attempt it returns None without sleeping.
C36_BoundedRetries ==
    /\ provider_op.pc = "request" =>
          /\ provider_op.attempt <= max_retries - 1
          /\ provider_op.waits = Backoff(provider_op.attempt)
          /\ ~provider_op.exhausted
    /\ provider_op.pc = "done" =>
          /\ provider_op.attempt <= max_retries - 1
          /\ provider_op.waits = Backoff(provider_op.attempt)
          /\ provider_op.exhausted =>
                /\ provider_op.attempt = max_retries - 1
                /\ provider_op.waits = <<1, 2>>
                /\ provider_op.result = NoAnswer

\* all attempts of a request failed: it slept 1 s and 2 s and returned None
C36_Witness ==
    /\ provider_op.pc = "done"
    /\ provider_op.exhausted
    /\ provider_op.waits = <<1, 2>>
    /\ provider_op.result = NoAnswer

\* ------------------------------------------------------------------------
\* Properties of an interrupted run
\* ------------------------------------------------------------------------
\* C37: an interrupt ends a check only at a package boundary: when the run
\* is aborted, no file is between the start of its iteration and the state
\* in which the iteration ends.
C37_InterruptAtBoundary ==
    cpc = "idle" /\ exit_code = 130 => in_progress.pc = "BOUNDARY"

\* ------------------------------------------------------------------------
\* Properties of the fallback comparison
\* ------------------------------------------------------------------------
\* the components of the normalized string, position i read as 0 when missing
PartAt(version, i) ==
    LET parts == parse_version(normalize_version(version))
    IN IF i <= Len(parts) THEN parts[i] ELSE 0

\* latest is larger at the first position where the two sequences differ
FirstDifferenceLarger(c, l) ==
    \E i \in 1..(Len(c) + Len(l) + 1) :
        /\ PartAt(l, i) > PartAt(c, i)
        /\ \A j \in 1..(i - 1) : PartAt(l, j) = PartAt(c, j)

PrereleaseOf(s, b) ==
    /\ b \in DottedStrings
    /\ \E suffix \in KeywordSuffixes : s = b \o suffix

\* C39: a release of dot-separated integers followed by a keyword suffix
\* ([._-], then alpha, beta, pre, rc or snapshot, then optional digits) sorts
\* below the release: from the prerelease to the release there is an update,
\* from the release to the prerelease there is none.
C39_KeywordPrereleaseBelowRelease ==
    vpc = "compared" =>
        /\ PrereleaseOf(current_version, latest_version)
               => result = Returned(TRUE)
        /\ PrereleaseOf(latest_version, current_version)
               => result = Returned(FALSE)

\* ------------------------------------------------------------------------
\* Properties of the update relation
\* ------------------------------------------------------------------------
\* C40: the update relation is transitive: when there is an update from
\* current_version to latest_version and one from latest_version to
\* other_version, there is one from current_version to other_version.
C40_UpdateTransitive ==
    (vpc = "chained" /\ result = Returned(TRUE) /\ chain.next = Returned(TRUE))
        => chain.ends = Returned(TRUE)

\* a chain of three strings with equal components, ordered by their prerelease
C40_Witness ==
    /\ vpc = "chained"
    /\ result = Returned(TRUE) /\ chain.next = Returned(TRUE)
    /\ chain.ends = Returned(TRUE)
    /\ Version(current_version).components = Version(other_version).components
    /\ Version(latest_version).prerelease # None
    /\ Version(other_version).prerelease = None
====
